---- MODULE Spec2Model ----
(***************************************************************************)
(* A model of the WSN flooding simulator: the shared Medium (media.py),    *)
(* the half-duplex Node radio (node/core.py) and the event queue of the    *)
(* simpy Environment that drives them.                                     *)
(*                                                                         *)
(* Loss rates and random draws are integers in units of 1/Scale; a draw d  *)
(* stands for random() returning the double of d/Scale, and the power      *)
(* base_loss_rate ** math.log2(k + 1) is computed as a double.  Distances  *)
(* are compared squared, ranges are in tenths of a grid unit.              *)
(***************************************************************************)
EXTENDS Integers, Sequences, FiniteSets, TLC

VARIABLES
    now,                \* Environment.now
    queue,              \* Environment._queue: the set of scheduled events
    eid,                \* Environment._eid: the next event sequence number
    node_pipes,         \* Media.node_pipes: receiver ids in registration order
    items,              \* the items of each node's simpy.Store
    get_waiting,        \* whether a StoreGet of the node's receive process waits
    pending,            \* Media._pending
    propagating,        \* Media._propagating
    last_tx_time,       \* Media._last_tx_time (a dict: partial function)
    base_loss_rate,     \* MediaConfig.base_loss_rate, in 1/Scale
    ENABLE_CI,          \* MediaConfig.ENABLE_CI
    node_pos,           \* NodeConfig.node_pos of each node
    radio_txdistance,   \* NodeConfig.radio_txdistance of each node, in tenths
    radio_channel,      \* NodeConfig.radio_channel of each node
    guard_time,         \* NodeConfig.guard_time (shared by all nodes)
    max_transmissions,  \* NodeConfig.max_transmissions (shared by all nodes)
    radio_rx_enable,    \* Node.radio_rx_enable
    local_tx_count,     \* Node.local_tx_count
    flood_beacon_ids,   \* Node.flood_beacon_ids
    flood_beacon_times, \* Node.flood_beacon_times
    msg_seq,            \* Sink.msg_seq
    resolved,           \* history: what the last run of Media._propagate did
    tick,               \* history: the puts and resolutions of the current tick
    stats,              \* history: counts over the whole run
    network,            \* NetworkManager: nodes, _node_by_id, node_count
    call                \* history: the last call of main, get_results or the
                        \* NetworkManager, with its arguments and how it ended

vars == << now, queue, eid, node_pipes, items, get_waiting, pending, propagating,
           last_tx_time, base_loss_rate, ENABLE_CI, node_pos, radio_txdistance,
           radio_channel, guard_time, max_transmissions, radio_rx_enable,
           local_tx_count, flood_beacon_ids, flood_beacon_times, msg_seq, resolved,
           tick, stats, network, call >>

(***************************************************************************)
(* Bounds of the model.                                                    *)
(***************************************************************************)
NumNodes == 3        \* nodes of the Medium driven by arbitrary callers
MaxTime == 1         \* the last tick of the Medium driven by arbitrary callers
MaxPuts == 3         \* Media.put calls of the Medium driven by arbitrary callers
MaxK == 4            \* longest list handed to _loss_handler on its own
MaxTx == 2           \* largest max_transmissions of a simulation run
MaxLowDraws == 1     \* draws of a simulation run that are not the largest draw

Scale == 100 * 100

LossRates == {0, 6000, Scale}
Draws == {0, 5000, Scale - 1}
\* draws of _loss_handler on its own: the draws next to 0.6 ** log2(k + 1)
\* for k = 1 .. 5 and to 0.0001 ** log2(k + 1)
FineDraws == {0, 1, 2670, 2671, 3054, 3055, 3599, 3600, 4450, 4451,
              5999, 6000, Scale - 1}
RunDraws == {0, Scale - 1}
\* no draw taken: not a value random() returns
NoDraw == Scale
Channels == {7, 8}
GuardTimes == {1, 2}
HopChoices == {1}

default_radio_channel == 7
default_radio_txdistance == 15
default_base_loss_rate == 6000

NORMAL == 1
URGENT == 0

(***************************************************************************)
(* Frames (message.py).                                                    *)
(***************************************************************************)
FloodBeaconMessage(flood_id) == [FLOOD_ID |-> flood_id]

Frame(type, src, dst, seq, payload) ==
    [TYPE |-> type, SRC |-> src, DST |-> dst, SEQ |-> seq, PAYLOAD |-> payload]

Identity(frame) ==
    << frame.TYPE, frame.SRC, frame.DST, frame.SEQ, frame.PAYLOAD >>

NoFrame == Frame("NONE", 0, 0, 0, FloodBeaconMessage(""))

Frames == { Frame("FLOOD_BEACON", 1, 0, seq, FloodBeaconMessage("a")) : seq \in {0, 1} }

Transmission(frame, sender_id) == [frame |-> frame, sender_id |-> sender_id]

(***************************************************************************)
(* The doubles of base_loss_rate ** math.log2(k + 1) and of the draw it is *)
(* compared with.  TLC's integers have 32 bits, so a number with a         *)
(* fractional part is a sequence << i, f1, ..., f6 >> of limbs, of value   *)
(* i + f1 / Limb + f2 / Limb^2 + ...; a double is an exponent of two and a *)
(* mantissa, a number in [1, 2) with 52 fractional bits, or the mantissa 0 *)
(* for 0.0.  Sums, products and quotients are rounded down to the last     *)
(* limb, 31 bits below the last bit of a mantissa, and a double is rounded *)
(* to nearest; the C library may round a power to the other neighbour.     *)
(***************************************************************************)
Limb == 128 * 128

RECURSIVE Pow2(_)
Pow2(n) == IF n <= 0 THEN 1 ELSE 2 * Pow2(n - 1)

\* floor(log2(num / den))
RECURSIVE Exponent(_, _)
Exponent(num, den) ==
    IF num < den THEN Exponent(2 * num, den) - 1
    ELSE IF num >= 2 * den THEN Exponent(num, 2 * den) + 1
    ELSE 0

\* the integer i as a number
FixedInt(i) == << i, 0, 0, 0, 0, 0, 0 >>

\* a + b; b may be the limbs of a number below a, negated
FixedAdd(a, b) ==
    LET RECURSIVE From(_, _, _)
        From(t, carry, acc) ==
            LET v == a[t] + b[t] + carry
            IN  IF t = 1 THEN << v >> \o acc
                ELSE From(t - 1, v \div Limb, << v % Limb >> \o acc)
    IN  From(Len(a), 0, << >>)

\* a * b
FixedMul(a, b) ==
    LET RECURSIVE Column(_, _)
        \* the products a[i] * b[s - i] of the limbs s - 2 places down
        Column(s, i) ==
            IF i > Len(a) \/ i >= s THEN 0
            ELSE IF s - i > Len(b) THEN Column(s, i + 1)
            ELSE a[i] * b[s - i] + Column(s, i + 1)
        RECURSIVE From(_, _, _)
        From(s, carry, acc) ==
            LET v == Column(s, 1) + carry
            IN  IF s = 2 THEN << v >> \o acc
                ELSE From(s - 1, v \div Limb,
                          IF s <= Len(a) + 1 THEN << v % Limb >> \o acc ELSE acc)
    IN  From(2 * Len(a), 0, << >>)

\* a / n for an integer 0 < n < 8 * Limb, and whether a limb was dropped
FixedDiv(a, n) ==
    LET RECURSIVE From(_, _, _)
        From(t, rem, acc) ==
            LET v == rem * Limb + a[t]
            IN  IF t = Len(a)
                THEN [ fixed |-> Append(acc, v \div n), inexact |-> v % n # 0 ]
                ELSE From(t + 1, v % n, Append(acc, v \div n))
    IN  From(1, 0, << >>)

\* the double nearest to a * 2 ** exp for a number a in [1, 2), ties to the
\* even mantissa; inexact says that a is below the number it stands for
DoubleRound(exp, a, inexact) ==
    LET bits == 52
        at == (bits \div 14) + 2
        unit == Pow2(14 - (bits % 14))
        low == a[at] % unit
        more == inexact \/ \E t \in (at + 1)..Len(a) : a[t] # 0
        odd == (a[at] \div unit) % 2 = 1
        up == 2 * low > unit \/ (2 * low = unit /\ (more \/ odd))
        mant == FixedAdd([ t \in 1..Len(a) |-> IF t < at THEN a[t]
                                               ELSE IF t = at THEN a[at] - low
                                               ELSE 0 ],
                         [ t \in 1..Len(a) |-> IF t = at /\ up THEN unit ELSE 0 ])
    IN  IF mant[1] >= 2 THEN [ exp |-> exp + 1, mant |-> FixedInt(1) ]
        ELSE [ exp |-> exp, mant |-> mant ]

\* the double num / den, for num >= 0 and den > 0
DoubleOf(num, den) ==
    IF num = 0 THEN [ exp |-> 0, mant |-> FixedInt(0) ]
    ELSE LET exp == Exponent(num, den)
             q == IF exp < 0 THEN FixedDiv(FixedInt(num * Pow2(-exp)), den)
                  ELSE FixedDiv(FixedInt(num), den * Pow2(exp))
         IN  DoubleRound(exp, q.fixed, q.inexact)

\* a < b on doubles that are not negative
DoubleLess(a, b) ==
    IF a.mant[1] = 0 THEN b.mant[1] # 0
    ELSE IF b.mant[1] = 0 THEN FALSE
    ELSE \/ a.exp < b.exp
         \/ /\ a.exp = b.exp
            /\ \E t \in 1..Len(a.mant) :
                   /\ a.mant[t] < b.mant[t]
                   /\ \A s \in 1..(t - 1) : a.mant[s] = b.mant[s]

\* log2(x) for a number x in [1, 2), bit by bit: the square of x is 2 or
\* more exactly when the next bit of the logarithm is set
Log2Fraction(x) ==
    LET RECURSIVE Bits(_, _, _)
        Bits(y, n, limb) ==
            IF n = 0 THEN [ y |-> y, limb |-> limb ]
            ELSE LET sq == FixedMul(y, y)
                 IN  IF sq[1] >= 2 THEN Bits(FixedDiv(sq, 2).fixed, n - 1, 2 * limb + 1)
                     ELSE Bits(sq, n - 1, 2 * limb)
        RECURSIVE Limbs(_, _)
        Limbs(y, acc) ==
            IF Len(acc) = Len(x) THEN acc
            ELSE LET r == Bits(y, 14, 0)
                 IN  Limbs(r.y, Append(acc, r.limb))
    IN  Limbs(x, << 0 >>)

\* math.log2(m) for an integer m >= 1
DoubleLog2(m) ==
    IF m = 1 THEN DoubleOf(0, 1)
    ELSE LET g == Exponent(m, 1)
             f == Log2Fraction(FixedDiv(FixedInt(m), Pow2(g)).fixed)
             exp == Exponent(g, 1)
         IN  DoubleRound(exp, FixedDiv(FixedAdd(FixedInt(g), f), Pow2(exp)).fixed,
                         f # FixedInt(0))

\* x ** y for doubles 0 <= x <= 1 and y = 0 or y >= 1: 2 ** (y * log2(x)),
\* the power of two by the series of exp
DoublePow(x, y) ==
    LET ln2 == << 0, 11356, 8575, 8007, 3961, 10994, 7739 >>
        RECURSIVE Series(_, _, _, _)
        Series(z, term, n, sum) ==
            LET next == FixedDiv(FixedMul(term, z), n).fixed
                more == FixedAdd(sum, next)
            IN  IF more = sum THEN sum ELSE Series(z, next, n + 1, more)
        Negative(a) == [ t \in 1..Len(a) |-> - a[t] ]
        \* - log2(x)
        l == FixedAdd(FixedInt(- x.exp), Negative(Log2Fraction(x.mant)))
        e == FixedMul(l, FixedMul(y.mant, FixedInt(Pow2(y.exp))))
        f == [ e EXCEPT ![1] = 0 ]
        g == FixedAdd(FixedInt(1), Negative(f))
    IN  IF y.mant[1] = 0 \/ x = DoubleOf(1, 1) THEN DoubleOf(1, 1)
        ELSE IF x.mant[1] = 0 THEN x
        ELSE IF f = FixedInt(0) THEN [ exp |-> - e[1], mant |-> FixedInt(1) ]
        ELSE DoubleRound(- (e[1] + 1),
                         Series(FixedMul(g, ln2), FixedInt(1), 1, FixedInt(1)), TRUE)

\* DoublePow(DoubleOf(rate, Scale), DoubleLog2(m)) for the loss rates of the
\* specifications below and m = 1 .. 10, written out so that a power is not
\* computed anew wherever it is used
PowerTable(rate) ==
    IF rate = 0
    THEN [ m \in 1..10 |-> [ exp |-> 0, mant |-> FixedInt(IF m = 1 THEN 1 ELSE 0) ] ]
    ELSE IF rate = 1
    THEN <<
             [ exp |-> 0, mant |-> << 1, 0, 0, 0, 0, 0, 0 >> ],
             [ exp |-> -14, mant |-> << 1, 10459, 8939, 1808, 13008, 0, 0 >> ],
             [ exp |-> -22, mant |-> << 1, 15037, 11662, 3414, 2096, 0, 0 >> ],
             [ exp |-> -27, mant |-> << 1, 5606, 3810, 3107, 928, 0, 0 >> ],
             [ exp |-> -31, mant |-> << 1, 1756, 97, 9682, 8304, 0, 0 >> ],
             [ exp |-> -35, mant |-> << 1, 9356, 10916, 13597, 3056, 0, 0 >> ],
             [ exp |-> -38, mant |-> << 1, 10170, 10153, 6193, 11712, 0, 0 >> ],
             [ exp |-> -40, mant |-> << 1, 1630, 6529, 2938, 8480, 0, 0 >> ],
             [ exp |-> -43, mant |-> << 1, 13746, 12066, 6048, 2848, 0, 0 >> ],
             [ exp |-> -45, mant |-> << 1, 13336, 9597, 1262, 6544, 0, 0 >> ] >>
    ELSE IF rate = default_base_loss_rate
    THEN <<
             [ exp |-> 0, mant |-> << 1, 0, 0, 0, 0, 0, 0 >> ],
             [ exp |-> -1, mant |-> << 1, 3276, 13107, 3276, 13104, 0, 0 >> ],
             [ exp |-> -2, mant |-> << 1, 12780, 11983, 15230, 7712, 0, 0 >> ],
             [ exp |-> -2, mant |-> << 1, 7208, 15728, 10485, 12448, 0, 0 >> ],
             [ exp |-> -2, mant |-> << 1, 3631, 5656, 13239, 15792, 0, 0 >> ],
             [ exp |-> -2, mant |-> << 1, 1114, 13743, 15691, 14464, 0, 0 >> ],
             [ exp |-> -3, mant |-> << 1, 14855, 5449, 7207, 9632, 0, 0 >> ],
             [ exp |-> -3, mant |-> << 1, 11927, 9043, 15859, 11648, 0, 0 >> ],
             [ exp |-> -3, mant |-> << 1, 9573, 11292, 217, 7424, 0, 0 >> ],
             [ exp |-> -3, mant |-> << 1, 7634, 6788, 2780, 12384, 0, 0 >> ] >>
    ELSE [ m \in 1..10 |-> [ exp |-> 0, mant |-> FixedInt(1) ] ]

\* (rate / Scale) ** math.log2(m)
Power(rate, m) ==
    IF rate \in {0, 1, default_base_loss_rate, Scale} /\ m \in 1..10
    THEN PowerTable(rate)[m]
    ELSE DoublePow(DoubleOf(rate, Scale), DoubleLog2(m))

\* the double random() returns, for a draw in units of 1 / Scale
Random(draw) == DoubleOf(draw, Scale)

\* mutant: the exponent is log2(k)
EffectiveLoss_Log2K(rate, k) == Power(rate, k)

\* effective_loss = base_loss_rate ** math.log2(k + 1)
EffectiveLoss(rate, k) == Power(rate, k + 1)

(***************************************************************************)
(* The state as one record, so that a handler that calls other handlers is *)
(* an operator from state to state.                                        *)
(***************************************************************************)
World ==
    [ now |-> now, queue |-> queue, eid |-> eid, node_pipes |-> node_pipes,
      items |-> items, get_waiting |-> get_waiting, pending |-> pending,
      propagating |-> propagating, last_tx_time |-> last_tx_time,
      radio_channel |-> radio_channel, radio_rx_enable |-> radio_rx_enable,
      local_tx_count |-> local_tx_count, flood_beacon_ids |-> flood_beacon_ids,
      flood_beacon_times |-> flood_beacon_times, msg_seq |-> msg_seq,
      resolved |-> resolved, tick |-> tick, stats |-> stats ]

Commit(w) ==
    /\ now' = w.now
    /\ queue' = w.queue
    /\ eid' = w.eid
    /\ node_pipes' = w.node_pipes
    /\ items' = w.items
    /\ get_waiting' = w.get_waiting
    /\ pending' = w.pending
    /\ propagating' = w.propagating
    /\ last_tx_time' = w.last_tx_time
    /\ radio_channel' = w.radio_channel
    /\ radio_rx_enable' = w.radio_rx_enable
    /\ local_tx_count' = w.local_tx_count
    /\ flood_beacon_ids' = w.flood_beacon_ids
    /\ flood_beacon_times' = w.flood_beacon_times
    /\ msg_seq' = w.msg_seq
    /\ resolved' = w.resolved
    /\ tick' = w.tick
    /\ stats' = w.stats
    /\ UNCHANGED << base_loss_rate, ENABLE_CI, node_pos, radio_txdistance,
                    guard_time, max_transmissions, network, call >>

Registered(w) == { w.node_pipes[i] : i \in 1..Len(w.node_pipes) }

(***************************************************************************)
(* The event queue of simpy.Environment.  An event is ordered by           *)
(* (time, priority, eid); kind, node, frame and i say which callback runs. *)
(***************************************************************************)
Event(kind, node, frame, i) == [kind |-> kind, node |-> node, frame |-> frame, i |-> i]

\* Environment.schedule(event, priority, delay)
Schedule(w, priority, delay, ev) ==
    [w EXCEPT !.queue = @ \cup { [ time |-> w.now + delay, prio |-> priority,
                                   eid |-> w.eid, kind |-> ev.kind, node |-> ev.node,
                                   frame |-> ev.frame, i |-> ev.i ] },
              !.eid = @ + 1]

\* mutant: the heap ordered by time and sequence number alone
Before_Fifo(a, b) ==
    \/ a.time < b.time
    \/ a.time = b.time /\ a.eid < b.eid

\* the order of the heap of Environment
Before(a, b) ==
    \/ a.time < b.time
    \/ a.time = b.time /\ a.prio < b.prio
    \/ a.time = b.time /\ a.prio = b.prio /\ a.eid < b.eid

\* the event Environment.step pops next
NextEvent(q) == CHOOSE e \in q : \A o \in q \ {e} : Before(e, o)

\* history: whether a tick that is over was resolved as often as it should
TickClosed(t) == (Len(t.admitted) > 0) => (t.resolves = 1)

\* history: a new tick starts when the clock moves
TickAt(time, nodes, past_ok) ==
    [ time |-> time, admitted |-> << >>, evaluated |-> << >>, resolves |-> 0,
      late |-> FALSE, deduped |-> {}, pushed |-> [ n \in nodes |-> 0 ],
      handed |-> {}, past_ok |-> past_ok ]

\* history: nothing resolved yet in this tick
NoResolution(nodes) ==
    [ done |-> FALSE, batch |-> << >>,
      rx |-> [n \in nodes |-> << >>], out |-> [n \in nodes |-> << >>],
      draw |-> [n \in nodes |-> NoDraw] ]

\* the clock moves to a later time
Advance(w, time) ==
    [w EXCEPT !.now = time,
              !.tick = TickAt(time, Registered(w), w.tick.past_ok /\ TickClosed(w.tick)),
              !.resolved = NoResolution(Registered(w))]

\* Environment.step: pop the next event and move the clock to its time
Pop(w) ==
    LET ev == NextEvent(w.queue)
        w1 == [w EXCEPT !.queue = @ \ {ev}]
    IN  IF ev.time = w.now THEN w1 ELSE Advance(w1, ev.time)

(***************************************************************************)
(* Media (media.py).                                                       *)
(***************************************************************************)
\* self._last_tx_time.get(transmitter_id) == time
LastTxTimeIs(w, transmitter_id, time) ==
    /\ transmitter_id \in DOMAIN w.last_tx_time
    /\ w.last_tx_time[transmitter_id] = time

\* mutant: the resolution event is scheduled ahead of the events already
\* queued for the tick
MediaPutAdmit_Urgent(w, frame, transmitter_id) ==
    LET tx == Transmission(frame, transmitter_id)
        w1 == [w EXCEPT !.last_tx_time =
                            [ t \in (DOMAIN @) \cup {transmitter_id} |->
                                IF t = transmitter_id THEN w.now ELSE @[t] ],
                        !.pending = Append(@, tx),
                        !.tick.admitted = Append(@, tx),
                        !.stats.admitted = @ + 1]
    IN  IF ~ w1.propagating
        THEN [Schedule(w1, URGENT, 0, Event("propagate", 0, NoFrame, 0))
                 EXCEPT !.propagating = TRUE]
        ELSE w1

\* mutant: a resolution event is scheduled for every admitted transmission
MediaPutAdmit_AlwaysSchedule(w, frame, transmitter_id) ==
    LET tx == Transmission(frame, transmitter_id)
        w1 == [w EXCEPT !.last_tx_time =
                            [ t \in (DOMAIN @) \cup {transmitter_id} |->
                                IF t = transmitter_id THEN w.now ELSE @[t] ],
                        !.pending = Append(@, tx),
                        !.tick.admitted = Append(@, tx),
                        !.stats.admitted = @ + 1]
    IN  [Schedule(w1, NORMAL, 0, Event("propagate", 0, NoFrame, 0))
            EXCEPT !.propagating = TRUE]

\* Media.put from the update of _last_tx_time on
MediaPutAdmit(w, frame, transmitter_id) ==
    LET tx == Transmission(frame, transmitter_id)
        w1 == [w EXCEPT !.last_tx_time =
                            [ t \in (DOMAIN @) \cup {transmitter_id} |->
                                IF t = transmitter_id THEN w.now ELSE @[t] ],
                        !.pending = Append(@, tx),
                        !.tick.admitted = Append(@, tx),
                        !.stats.admitted = @ + 1]
    IN  IF ~ w1.propagating
        THEN [Schedule(w1, NORMAL, 0, Event("propagate", 0, NoFrame, 0))
                 EXCEPT !.propagating = TRUE]
        ELSE w1

\* mutant: a sender that has transmitted in any tick is refused
MediaPutDedup_AnyTick(w, transmitter_id) == transmitter_id \in DOMAIN w.last_tx_time

\* mutant: no check of the sender's last transmission time
MediaPutDedup_Never(w, transmitter_id) == FALSE

\* whether Media.put returns early because the sender is already in the tick
MediaPutDedup(w, transmitter_id) == LastTxTimeIs(w, transmitter_id, w.now)

\* mutant: no check of node_pipes
MediaPutRaises_Never(w) == FALSE

\* whether Media.put raises RuntimeError("There are no output pipes.")
MediaPutRaises(w) == Len(w.node_pipes) = 0

\* Media.put(frame, transmitter_id); of a call that raises only the history
\* counter of the raised calls tells
MediaPut(w, frame, transmitter_id) ==
    LET w0 == [w EXCEPT !.tick.late = @ \/ (w.tick.resolves > 0),
                        !.stats.calls = @ + 1]
    IN  IF MediaPutRaises(w) THEN [w EXCEPT !.stats.raised = @ + 1]
        ELSE IF MediaPutDedup(w, transmitter_id)
        THEN [w0 EXCEPT !.tick.deduped = @ \cup {transmitter_id}]
        ELSE MediaPutAdmit(w0, frame, transmitter_id)

Dist2(a, b) == (a[1] - b[1]) * (a[1] - b[1]) + (a[2] - b[2]) * (a[2] - b[2])

\* mutant: a receiver at exactly the range is out of range
InRange_Exclusive(sender, receiver) ==
    ~ ( 100 * Dist2(node_pos[sender], node_pos[receiver])
          >= radio_txdistance[sender] * radio_txdistance[sender] )

\* mutant: a sender reaches twice its range
InRange_Doubled(sender, receiver) ==
    ~ ( 100 * Dist2(node_pos[sender], node_pos[receiver])
          > 4 * radio_txdistance[sender] * radio_txdistance[sender] )

\* Media._in_range: distance > max_distance excludes, with the range in tenths
InRange(sender, receiver) ==
    ~ ( 100 * Dist2(node_pos[sender], node_pos[receiver])
          > radio_txdistance[sender] * radio_txdistance[sender] )

\* mutant: the channel is not compared
OnChannel_Any(w, sender, receiver) == TRUE

\* Media._on_channel
OnChannel(w, sender, receiver) ==
    ~ ( w.radio_channel[receiver] # w.radio_channel[sender] )

\* mutant: frames are told apart by their type alone
Identities_ByType(transmissions) ==
    { transmissions[i].frame.TYPE : i \in 1..Len(transmissions) }

\* the identities of the frames of a list of transmissions
Identities(transmissions) ==
    { Identity(transmissions[i].frame) : i \in 1..Len(transmissions) }

\* mutant: identical transmissions combine whether or not ENABLE_CI is set
LossHandler_AlwaysCI(transmissions, receiver_id, draw) ==
    IF Len(transmissions) = 0 THEN << >>
    ELSE IF Len(transmissions) = 1
    THEN IF draw < base_loss_rate THEN << >> ELSE << transmissions[1] >>
    ELSE IF Cardinality(Identities(transmissions)) > 1 THEN << >>
    ELSE IF DoubleLess(Random(draw), EffectiveLoss(base_loss_rate, Len(transmissions)))
         THEN << >>
    ELSE << transmissions[1] >>

\* mutant: every copy of a constructively combined frame is returned
LossHandler_AllCopies(transmissions, receiver_id, draw) ==
    IF Len(transmissions) = 0 THEN << >>
    ELSE IF Len(transmissions) = 1
    THEN IF draw < base_loss_rate THEN << >> ELSE << transmissions[1] >>
    ELSE IF ENABLE_CI
    THEN IF Cardinality(Identities(transmissions)) > 1 THEN << >>
         ELSE IF DoubleLess(Random(draw), EffectiveLoss(base_loss_rate, Len(transmissions)))
         THEN << >>
         ELSE transmissions
    ELSE << >>

\* mutant: a lone transmission is lost when the draw equals the loss rate too
LossHandler_LostAtRate(transmissions, receiver_id, draw) ==
    IF Len(transmissions) = 0 THEN << >>
    ELSE IF Len(transmissions) = 1
    THEN IF draw <= base_loss_rate THEN << >> ELSE << transmissions[1] >>
    ELSE IF ENABLE_CI
    THEN IF Cardinality(Identities(transmissions)) > 1 THEN << >>
         ELSE IF DoubleLess(Random(draw), EffectiveLoss(base_loss_rate, Len(transmissions)))
         THEN << >>
         ELSE << transmissions[1] >>
    ELSE << >>

\* mutant: a lone transmission survives a draw just below the loss rate
LossHandler_KeptBelowRate(transmissions, receiver_id, draw) ==
    IF Len(transmissions) = 0 THEN << >>
    ELSE IF Len(transmissions) = 1
    THEN IF draw + 1 < base_loss_rate THEN << >> ELSE << transmissions[1] >>
    ELSE IF ENABLE_CI
    THEN IF Cardinality(Identities(transmissions)) > 1 THEN << >>
         ELSE IF DoubleLess(Random(draw), EffectiveLoss(base_loss_rate, Len(transmissions)))
         THEN << >>
         ELSE << transmissions[1] >>
    ELSE << >>

\* mutant: several transmissions at once are always lost
LossHandler_NoCI(transmissions, receiver_id, draw) ==
    IF Len(transmissions) = 0 THEN << >>
    ELSE IF Len(transmissions) = 1
    THEN IF draw < base_loss_rate THEN << >> ELSE << transmissions[1] >>
    ELSE << >>

\* Media._loss_handler; draw is the value random() returns if it is called
LossHandler(transmissions, receiver_id, draw) ==
    IF Len(transmissions) = 0 THEN << >>
    ELSE IF Len(transmissions) = 1
    THEN IF draw < base_loss_rate THEN << >> ELSE << transmissions[1] >>
    ELSE IF ENABLE_CI
    THEN IF Cardinality(Identities(transmissions)) > 1 THEN << >>
         ELSE LET k == Len(transmissions)
                  effective_loss == EffectiveLoss(base_loss_rate, k)
              IN  IF DoubleLess(Random(draw), effective_loss) THEN << >>
                  ELSE << transmissions[1] >>
    ELSE << >>

\* whether Media._loss_handler calls random() for these transmissions
DrawTaken(transmissions) ==
    \/ Len(transmissions) = 1
    \/ /\ Len(transmissions) > 1
       /\ ENABLE_CI
       /\ Cardinality(Identities(transmissions)) = 1

\* store.put(frame) on a simpy.Store of unbounded capacity: the item is
\* appended at once and the StorePut event is scheduled
StorePut(w, receiver_id, frame) ==
    Schedule([w EXCEPT !.items[receiver_id] = Append(@, frame),
                       !.tick.pushed[receiver_id] = @ + 1],
             NORMAL, 0, Event("store_put", receiver_id, NoFrame, 0))

RECURSIVE StorePutAll(_, _, _, _)
StorePutAll(w, receiver_id, rx, j) ==
    IF j > Len(rx) THEN w
    ELSE StorePutAll(StorePut(w, receiver_id, rx[j].frame), receiver_id, rx, j + 1)

\* the filter of Media._propagate: the pending transmissions that pass the
\* range and channel conditions for the receiver
Filtered(w, receiver_id) ==
    LET Passes(tx) == InRange(tx.sender_id, receiver_id)
                        /\ OnChannel(w, tx.sender_id, receiver_id)
    IN  SelectSeq(w.pending, Passes)

\* sender_ids of Media._propagate
SenderIds(w) == { w.pending[j].sender_id : j \in 1..Len(w.pending) }

\* mutant: a sender of the tick is swept like any other receiver
PropagateTo_NoHalfDuplex(w, receiver_id, draw) ==
    LET filtered == Filtered(w, receiver_id)
        rx == LossHandler(filtered, receiver_id, draw)
        w1 == StorePutAll(w, receiver_id, rx, 1)
    IN  [w1 EXCEPT !.resolved.rx[receiver_id] = filtered,
                   !.resolved.out[receiver_id] = [ j \in 1..Len(rx) |-> rx[j].frame ],
                   !.resolved.draw[receiver_id] = draw]

\* one pass of the receiver sweep of Media._propagate
PropagateTo(w, receiver_id, draw) ==
    IF receiver_id \in SenderIds(w) THEN w
    ELSE LET filtered == Filtered(w, receiver_id)
             rx == LossHandler(filtered, receiver_id, draw)
             w1 == StorePutAll(w, receiver_id, rx, 1)
         IN  [w1 EXCEPT !.resolved.rx[receiver_id] = filtered,
                        !.resolved.out[receiver_id] =
                            [ j \in 1..Len(rx) |-> rx[j].frame ],
                        !.resolved.draw[receiver_id] = draw]

RECURSIVE PropagateSweep(_, _, _)
PropagateSweep(w, idx, draws) ==
    IF idx > Len(w.node_pipes) THEN w
    ELSE PropagateSweep(PropagateTo(w, w.node_pipes[idx], draws[w.node_pipes[idx]]),
                        idx + 1, draws)

\* mutant: the batch is not cleared
PropagateReset_KeepPending(w) == [w EXCEPT !.propagating = FALSE]

\* mutant: the reset also forgets the senders of the current tick
PropagateReset_ForgetSenders(w) ==
    [w EXCEPT !.pending = << >>, !.propagating = FALSE,
              !.last_tx_time = [ t \in { u \in DOMAIN @ : @[u] # w.now } |-> @[t] ]]

\* the reset at the end of Media._propagate
PropagateReset(w) == [w EXCEPT !.pending = << >>, !.propagating = FALSE]

\* Media._propagate; draws[r] is what random() returns for receiver r
Propagate(w, draws) ==
    LET w0 == [w EXCEPT !.resolved = [ NoResolution(Registered(w))
                                         EXCEPT !.done = TRUE, !.batch = w.pending ],
                        !.tick.evaluated = @ \o w.pending,
                        !.tick.resolves = @ + 1]
    IN  PropagateReset(PropagateSweep(w0, 1, draws))

\* what random() may return, receiver by receiver: it is called only for a
\* receiver that is no sender and whose filtered list makes _loss_handler draw
DrawChoices(w, D) ==
    LET drawing == { r \in Registered(w) :
                       r \notin SenderIds(w) /\ DrawTaken(Filtered(w, r)) }
    IN  { [ r \in Registered(w) |-> IF r \in drawing THEN d[r] ELSE NoDraw ] :
            d \in [ drawing -> D ] }

\* Node.set_channel
SetChannel(w, node, new_channel) == [w EXCEPT !.radio_channel[node] = new_channel]

(***************************************************************************)
(* Node (node/core.py).                                                    *)
(***************************************************************************)
\* mutant: the transmission is not counted
NodeSendOn_NotCounted(w, node, frame) ==
    LET w1 == [w EXCEPT !.radio_rx_enable[node] = FALSE]
        w2 == MediaPut(w1, frame, node)
    IN  Schedule(w2, URGENT, 0, Event("init_reenable", node, NoFrame, 0))

\* mutant: the process reenable_rx is not started
NodeSendOn_NoReenable(w, node, frame) ==
    LET w1 == [w EXCEPT !.radio_rx_enable[node] = FALSE,
                        !.local_tx_count[node] = @ + 1]
    IN  MediaPut(w1, frame, node)

\* Node.send after the radio check: the frame goes to the Medium and the
\* process reenable_rx is started (its Initialize event is URGENT)
NodeSendOn(w, node, frame) ==
    LET w1 == [w EXCEPT !.radio_rx_enable[node] = FALSE,
                        !.local_tx_count[node] = @ + 1]
        w2 == MediaPut(w1, frame, node)
    IN  Schedule(w2, URGENT, 0, Event("init_reenable", node, NoFrame, 0))

\* mutant: the radio is not checked
NodeSend_NoRadioCheck(w, node, frame) == NodeSendOn(w, node, frame)

\* Node.send
NodeSend(w, node, frame) ==
    IF ~ w.radio_rx_enable[node] THEN w ELSE NodeSendOn(w, node, frame)

\* mutant: only the first reception of a flood is timed
RecordFloodBeacons_FirstTimeOnly(w, node, payload) ==
    LET flood_id == payload.FLOOD_ID
        flood_time == w.now
        times == w.flood_beacon_times[node]
    IN  [w EXCEPT !.flood_beacon_ids[node] = @ \cup {flood_id},
                  !.flood_beacon_times[node] =
                      [ f \in (DOMAIN times) \cup {flood_id} |->
                          IF f \in DOMAIN times THEN times[f] ELSE {flood_time} ]]

\* Node._record_flood_beacons
RecordFloodBeacons(w, node, payload) ==
    LET flood_id == payload.FLOOD_ID
        flood_time == w.now
        times == w.flood_beacon_times[node]
    IN  [w EXCEPT !.flood_beacon_ids[node] = @ \cup {flood_id},
                  !.flood_beacon_times[node] =
                      [ f \in (DOMAIN times) \cup {flood_id} |->
                          IF f \in DOMAIN times
                          THEN IF f = flood_id THEN times[f] \cup {flood_time}
                               ELSE times[f]
                          ELSE {flood_time} ]]

\* whether Node.receive returns the frame (TRUE) or None (FALSE)
ReceiveAdmits(w, node, frame) ==
    /\ w.radio_rx_enable[node]
    /\ ~ ( frame.DST # 0 /\ frame.DST # node )

\* mutant: the radio flag is not looked at
NodeReceive_RadioIgnored(w, node, frame) ==
    IF frame.DST # 0 /\ frame.DST # node THEN w
    ELSE IF frame.TYPE = "FLOOD_BEACON"
    THEN RecordFloodBeacons(w, node, frame.PAYLOAD)
    ELSE w

\* mutant: the logical destination is not looked at
NodeReceive_AnyDestination(w, node, frame) ==
    IF ~ w.radio_rx_enable[node] THEN w
    ELSE IF frame.TYPE = "FLOOD_BEACON"
    THEN RecordFloodBeacons(w, node, frame.PAYLOAD)
    ELSE w

\* the state Node.receive leaves
NodeReceive(w, node, frame) ==
    IF ~ w.radio_rx_enable[node] THEN w
    ELSE IF frame.DST # 0 /\ frame.DST # node THEN w
    ELSE IF frame.TYPE = "FLOOD_BEACON"
    THEN RecordFloodBeacons(w, node, frame.PAYLOAD)
    ELSE w

(***************************************************************************)
(* The processes of Sensor and Sink (node/sensor.py, node/sink.py) as the  *)
(* callbacks of the events they wait for.                                  *)
(***************************************************************************)
\* a generator returns: simpy schedules the Process event itself
ProcessEnd(w, node) == Schedule(w, NORMAL, 0, Event("proc_end", node, NoFrame, 0))

\* env.process(generator): the Initialize event is URGENT
StartProcess(w, kind, node, frame) == Schedule(w, URGENT, 0, Event(kind, node, frame, 0))

\* yield self.sleep(duration): the Timeout is scheduled when it is created
Sleep(w, duration, kind, node, frame, i) ==
    Schedule(w, NORMAL, duration, Event(kind, node, frame, i))

\* mutant: a get on an empty endpoint is not left waiting for an item
StoreGet_NotWaiting(w, node) ==
    IF Len(w.items[node]) > 0
    THEN Schedule([w EXCEPT !.items[node] = Tail(@)],
                  NORMAL, 0, Event("store_get", node, w.items[node][1], 0))
    ELSE w

\* self.media_in.get(): the StoreGet succeeds at once when an item is there
StoreGet(w, node) ==
    IF Len(w.items[node]) > 0
    THEN Schedule([w EXCEPT !.items[node] = Tail(@)],
                  NORMAL, 0, Event("store_get", node, w.items[node][1], 0))
    ELSE [w EXCEPT !.get_waiting[node] = TRUE]

\* mutant: the StorePut event does not serve the waiting StoreGet
TriggerGet_NotServed(w, node) == w

\* the StorePut event fires: Store._trigger_get serves the waiting StoreGet
TriggerGet(w, node) ==
    IF w.get_waiting[node] /\ Len(w.items[node]) > 0
    THEN StoreGet([w EXCEPT !.get_waiting[node] = FALSE], node)
    ELSE w

\* mutant: the flood process sleeps one tick longer than guard_time
FloodLoop_LongerSleep(w, node, frame, i) ==
    IF i < max_transmissions
    THEN Sleep(w, guard_time + 1, "flood_timeout", node, frame, i)
    ELSE ProcessEnd(w, node)

\* _flood_process from iteration i of its loop up to its next yield
FloodLoop(w, node, frame, i) ==
    IF i < max_transmissions
    THEN Sleep(w, guard_time, "flood_timeout", node, frame, i)
    ELSE ProcessEnd(w, node)

\* mutant: a relayed frame carries the relaying node as its source
FloodResume_OwnSource(w, node, frame, i) ==
    FloodLoop(NodeSend(w, node, [frame EXCEPT !.SRC = node]), node, frame, i + 1)

\* _flood_process resumed by its Timeout
FloodResume(w, node, frame, i) == FloodLoop(NodeSend(w, node, frame), node, frame, i + 1)

\* mutant: reenable_rx sleeps one tick longer than guard_time
ReenableStart_LongerSleep(w, node) ==
    Sleep(w, guard_time + 1, "reenable_timeout", node, NoFrame, 0)

\* reenable_rx from its start up to its yield
ReenableStart(w, node) == Sleep(w, guard_time, "reenable_timeout", node, NoFrame, 0)

\* mutant: the process ends without enabling the radio
ReenableRx_Stuck(w, node) == ProcessEnd(w, node)

\* reenable_rx resumed by its Timeout
ReenableRx(w, node) == ProcessEnd([w EXCEPT !.radio_rx_enable[node] = TRUE], node)

\* history: the frames handed to Node.receive in the current tick
Handed(w, node, frame) ==
    [w EXCEPT !.tick.handed =
         @ \cup { [ node |-> node, frame |-> frame,
                    listening |-> w.radio_rx_enable[node] ] }]

\* mutant: every admitted flood beacon starts a flood process
ReceiveResume_AlwaysRelay(w, node, frame) ==
    LET w1 == Handed(NodeReceive(w, node, frame), node, frame)
        w2 == IF ReceiveAdmits(w, node, frame) /\ frame.TYPE = "FLOOD_BEACON"
              THEN StartProcess(w1, "init_flood", node, frame)
              ELSE w1
    IN  StoreGet(w2, node)

\* one pass of the loop of _receive_process, resumed with a frame
ReceiveResume(w, node, frame) ==
    LET flood_id == frame.PAYLOAD.FLOOD_ID
        is_new == flood_id \notin w.flood_beacon_ids[node]
        w1 == Handed(NodeReceive(w, node, frame), node, frame)
        w2 == IF ReceiveAdmits(w, node, frame) /\ frame.TYPE = "FLOOD_BEACON" /\ is_new
              THEN StartProcess(w1, "init_flood", node, frame)
              ELSE w1
    IN  StoreGet(w2, node)

\* what uuid.uuid4().hex may return: the 16 bytes come from os.urandom,
\* which random.seed does not reach
FloodIds == {"a", "b"}

\* Sink.trigger_flood
TriggerFlood(w, node, flood_id) ==
    LET w1 == [w EXCEPT !.msg_seq = @ + 1]
        times == w1.flood_beacon_times[node]
        w2 == [w1 EXCEPT !.flood_beacon_ids[node] = @ \cup {flood_id},
                         !.flood_beacon_times[node] =
                             [ f \in (DOMAIN times) \cup {flood_id} |->
                                 IF f \in DOMAIN times
                                 THEN IF f = flood_id THEN times[f] \cup {w1.now}
                                      ELSE times[f]
                                 ELSE {w1.now} ]]
        frame == Frame("FLOOD_BEACON", node, 0, w2.msg_seq, FloodBeaconMessage(flood_id))
    IN  StartProcess(NodeSend(w2, node, frame), "init_flood", node, frame)

\* Sink._main_process resumed by its Timeout
MainResume(w, node, flood_id) == ProcessEnd(TriggerFlood(w, node, flood_id), node)

sink_start_delay == 100

(***************************************************************************)
(* Environment.step, one action for each kind of event.                    *)
(***************************************************************************)
NextIs(kind) == queue # {} /\ NextEvent(queue).kind = kind

\* Environment.step on the Medium's propagation event; draws are taken from D
StepPropagate(D) ==
    /\ NextIs("propagate")
    /\ \E draws \in DrawChoices(World, D) : Commit(Propagate(Pop(World), draws))

StepStorePut ==
    /\ NextIs("store_put")
    /\ Commit(TriggerGet(Pop(World), NextEvent(queue).node))

StepStoreGet ==
    /\ NextIs("store_get")
    /\ Commit(ReceiveResume(Pop(World), NextEvent(queue).node, NextEvent(queue).frame))

StepInitReceive ==
    /\ NextIs("init_receive")
    /\ Commit(StoreGet(Pop(World), NextEvent(queue).node))

StepInitMain ==
    /\ NextIs("init_main")
    /\ Commit(Sleep(Pop(World), sink_start_delay, "main_timeout",
                    NextEvent(queue).node, NoFrame, 0))

StepMainTimeout ==
    /\ NextIs("main_timeout")
    /\ \E flood_id \in FloodIds :
           Commit(MainResume(Pop(World), NextEvent(queue).node, flood_id))

StepInitFlood ==
    /\ NextIs("init_flood")
    /\ Commit(FloodLoop(Pop(World), NextEvent(queue).node, NextEvent(queue).frame, 0))

StepFloodTimeout ==
    /\ NextIs("flood_timeout")
    /\ Commit(FloodResume(Pop(World), NextEvent(queue).node, NextEvent(queue).frame,
                          NextEvent(queue).i))

StepInitReenable ==
    /\ NextIs("init_reenable")
    /\ Commit(ReenableStart(Pop(World), NextEvent(queue).node))

StepReenableTimeout ==
    /\ NextIs("reenable_timeout")
    /\ Commit(ReenableRx(Pop(World), NextEvent(queue).node))

StepProcEnd ==
    /\ NextIs("proc_end")
    /\ Commit(Pop(World))

(***************************************************************************)
(* Initial states: the state construction leaves before env.run().         *)
(***************************************************************************)
(***************************************************************************)
(* The NetworkManager (manager.py).  A node is an object with the id its   *)
(* configuration gives it; two objects may carry the same id.              *)
(***************************************************************************)
NodeObject(obj, node_id) == [ obj |-> obj, node_id |-> node_id ]

\* NetworkManager.__init__
NetworkManagerInit == [ nodes |-> << >>, node_by_id |-> << >>, node_count |-> 0 ]

\* whether NetworkManager.add_node raises ValueError
AddNodeRaises(net, node) == node.node_id \in DOMAIN net.node_by_id

\* mutant: the node is appended to the list before its id is looked up
AddNode_AppendFirst(net, node) ==
    IF AddNodeRaises(net, node)
    THEN [net EXCEPT !.nodes = Append(@, node)]
    ELSE [ nodes |-> Append(net.nodes, node),
           node_by_id |-> [ i \in (DOMAIN net.node_by_id) \cup {node.node_id} |->
                              IF i = node.node_id THEN node ELSE net.node_by_id[i] ],
           node_count |-> Len(net.nodes) + 1 ]

\* the registry NetworkManager.add_node leaves
AddNode(net, node) ==
    IF AddNodeRaises(net, node) THEN net
    ELSE [ nodes |-> Append(net.nodes, node),
           node_by_id |-> [ i \in (DOMAIN net.node_by_id) \cup {node.node_id} |->
                              IF i = node.node_id THEN node ELSE net.node_by_id[i] ],
           node_count |-> Len(net.nodes) + 1 ]

\* whether the node object is in NetworkManager.nodes
InNodes(net, node) == \E j \in 1..Len(net.nodes) : net.nodes[j] = node

\* list.remove: the list without the first element equal to the node
ListRemove(nodes, node) ==
    LET first == CHOOSE j \in 1..Len(nodes) :
                     /\ nodes[j] = node
                     /\ \A k \in 1..(j - 1) : nodes[k] # node
    IN  [ j \in 1..(Len(nodes) - 1) |-> IF j < first THEN nodes[j] ELSE nodes[j + 1] ]

\* whether NetworkManager.remove_node raises ValueError
RemoveNodeRaises(net, node) ==
    \/ ~ InNodes(net, node)
    \/ node.node_id \notin DOMAIN net.node_by_id

\* the registry NetworkManager.remove_node leaves: the list is changed before
\* the id map, and node_count only when neither raised
RemoveNode(net, node) ==
    IF ~ InNodes(net, node) THEN net
    ELSE IF node.node_id \notin DOMAIN net.node_by_id
    THEN [net EXCEPT !.nodes = ListRemove(@, node)]
    ELSE [ nodes |-> ListRemove(net.nodes, node),
           node_by_id |-> [ i \in (DOMAIN net.node_by_id) \ {node.node_id} |->
                              net.node_by_id[i] ],
           node_count |-> Len(net.nodes) - 1 ]

\* whether NetworkManager.get_node raises ValueError
GetNodeRaises(net, node_id) == node_id \notin DOMAIN net.node_by_id

\* the network add_nodes builds: one node for each id, in the order of ids
RECURSIVE NetworkOf(_)
NetworkOf(ids) ==
    IF Len(ids) = 0 THEN NetworkManagerInit
    ELSE AddNode(NetworkOf(SubSeq(ids, 1, Len(ids) - 1)),
                 NodeObject(ids[Len(ids)], ids[Len(ids)]))

\* a finished or pending call of the program's interface
Call(op, args, status, result) ==
    [ op |-> op, args |-> args, status |-> status, result |-> result ]

NoResult == [ none |-> TRUE ]

NoCall == Call("none", NoResult, "none", NoResult)

NoStats == [ calls |-> 0, admitted |-> 0, low |-> 0, raised |-> 0 ]

\* Media.__init__, Node.__init__ and the registration of every node of ids
\* (get_output_conn), before any process is started
Constructed(ids) ==
    /\ now = 0
    /\ node_pipes = ids
    /\ items = [ n \in { ids[i] : i \in 1..Len(ids) } |-> << >> ]
    /\ get_waiting = [ n \in { ids[i] : i \in 1..Len(ids) } |-> FALSE ]
    /\ pending = << >>
    /\ propagating = FALSE
    /\ last_tx_time = << >>
    /\ radio_rx_enable = [ n \in { ids[i] : i \in 1..Len(ids) } |-> TRUE ]
    /\ local_tx_count = [ n \in { ids[i] : i \in 1..Len(ids) } |-> 0 ]
    /\ flood_beacon_ids = [ n \in { ids[i] : i \in 1..Len(ids) } |-> {} ]
    /\ flood_beacon_times = [ n \in { ids[i] : i \in 1..Len(ids) } |-> << >> ]
    /\ msg_seq = -1
    /\ resolved = NoResolution({ ids[i] : i \in 1..Len(ids) })
    /\ tick = TickAt(0, { ids[i] : i \in 1..Len(ids) }, TRUE)
    /\ stats = NoStats
    /\ network = NetworkOf(ids)
    /\ call = NoCall

(***************************************************************************)
(* The Medium driven by arbitrary callers: any registered node's id may be *)
(* handed to Media.put with any frame at any moment of a tick.  The nodes  *)
(* run no process of their own.                                            *)
(***************************************************************************)
Nodes == 1..NumNodes

\* node i of the line layout stands at (i - 1, 0)
LinePos(nodes) == [ n \in nodes |-> << n - 1, 0 >> ]

\* ranges of 1.0 and 2.0: the first j nodes reach two places, the others one
TxLayouts == { [ n \in Nodes |-> IF n <= j THEN 20 ELSE 10 ] : j \in {0, 1, NumNodes} }

Init ==
    /\ Constructed([ i \in 1..NumNodes |-> i ])
    /\ queue = {}
    /\ eid = 0
    /\ base_loss_rate = default_base_loss_rate
    /\ ENABLE_CI = TRUE
    /\ node_pos = LinePos(Nodes)
    /\ radio_txdistance = [ n \in Nodes |-> 10 ]
    /\ radio_channel = [ n \in Nodes |-> default_radio_channel ]
    /\ guard_time = 1
    /\ max_transmissions = 1

SendersOf(batch) == { batch[j].sender_id : j \in 1..Len(batch) }

\* history: the senders handed to Media.put in the current tick so far
PutInTick == SendersOf(tick.admitted) \cup tick.deduped

\* some callback running at the current time calls Media.put: a node's first
\* put of a tick carries the frame the Sink floods, a repeated put any frame
CallPut ==
    /\ stats.calls < MaxPuts
    /\ \E n \in Registered(World), f \in Frames :
           /\ n \notin PutInTick =>
                  f = Frame("FLOOD_BEACON", 1, 0, 0, FloodBeaconMessage("a"))
           /\ Commit(MediaPut(World, f, n))

\* some callback running at the current time creates a timer of one tick,
\* env.timeout(1), if none is waiting
CallTimeout ==
    /\ now < MaxTime
    /\ \A e \in queue : e.kind # "timeout"
    /\ Commit(Sleep(World, 1, "timeout", 0, NoFrame, 0))

\* Environment.step on the timer: the clock moves on
StepTimeout ==
    /\ NextIs("timeout")
    /\ Commit(Pop(World))

Next ==
    \/ CallPut
    \/ CallTimeout
    \/ StepPropagate(RunDraws)
    \/ StepStorePut
    \/ StepTimeout

Spec == Init /\ [][Next]_vars

(***************************************************************************)
(* One resolution of the Medium, for every batch, channel assignment,      *)
(* range layout, loss rate and draw: callers put and retune, then          *)
(* Media._propagate runs once.                                             *)
(***************************************************************************)
InitSweep ==
    /\ Constructed([ i \in 1..NumNodes |-> i ])
    /\ queue = {}
    /\ eid = 0
    /\ base_loss_rate \in LossRates
    /\ ENABLE_CI \in BOOLEAN
    /\ node_pos = LinePos(Nodes)
    /\ radio_txdistance \in TxLayouts
    /\ radio_channel = [ n \in Nodes |-> default_radio_channel ]
    /\ guard_time = 1
    /\ max_transmissions = 1

SweepPut ==
    /\ ~ resolved.done
    /\ stats.calls < MaxPuts
    /\ \E n \in Registered(World), f \in Frames : Commit(MediaPut(World, f, n))

\* some callback running at the current time calls Node.set_channel
SweepSetChannel ==
    /\ ~ resolved.done
    /\ \E n \in Registered(World), c \in Channels :
           /\ radio_channel[n] # c
           /\ Commit(SetChannel(World, n, c))

NextSweep ==
    \/ SweepPut
    \/ SweepSetChannel
    \/ StepPropagate(Draws)
    \/ StepStorePut

SpecSweep == InitSweep /\ [][NextSweep]_vars

(***************************************************************************)
(* Media._loss_handler on its own: pending holds the list it is handed,    *)
(* the transmissions of senders 1 .. k for a receiver k + 1 that all of    *)
(* them reach.                                                             *)
(***************************************************************************)
LossNodes == 1..(MaxK + 1)

LossInputs ==
    UNION { { [ i \in 1..k |-> Transmission(fs[i], i) ] : fs \in [ 1..k -> Frames ] } :
              k \in 0..MaxK }

InitLoss ==
    /\ Constructed([ i \in 1..(MaxK + 1) |-> i ])
    /\ queue = {}
    /\ eid = 0
    /\ base_loss_rate \in LossRates \cup {1}
    /\ ENABLE_CI \in BOOLEAN
    /\ node_pos = [ n \in LossNodes |-> << 0, n >> ]
    /\ radio_txdistance = [ n \in LossNodes |-> 10 * (MaxK + 1) ]
    /\ radio_channel = [ n \in LossNodes |-> default_radio_channel ]
    /\ guard_time = 1
    /\ max_transmissions = 1

\* the list arrives
LossInput ==
    /\ ~ resolved.done
    /\ pending = << >>
    /\ \E transmissions \in LossInputs :
           /\ transmissions # << >>
           /\ Commit([World EXCEPT !.pending = transmissions])

\* rx = self._loss_handler(rx, receiver_id)
LossApply ==
    /\ ~ resolved.done
    /\ pending # << >>
    /\ \E draw \in FineDraws :
         LET receiver_id == Len(pending) + 1
             rx == LossHandler(pending, receiver_id, draw)
         IN  Commit([World EXCEPT
                        !.resolved.done = TRUE,
                        !.resolved.batch = pending,
                        !.resolved.rx[receiver_id] = pending,
                        !.resolved.out[receiver_id] = [ j \in 1..Len(rx) |-> rx[j].frame ],
                        !.resolved.draw[receiver_id] =
                            IF DrawTaken(pending) THEN draw ELSE NoDraw])

NextLoss == LossInput \/ LossApply

SpecLoss == InitLoss /\ [][NextLoss]_vars

(***************************************************************************)
(* A run of the simulation (core.py): main builds the grid and env.run()   *)
(* steps through the event queue until it is empty.                        *)
(***************************************************************************)
Abs(x) == IF x < 0 THEN -x ELSE x

\* hop = max(abs(x), abs(y))
HopOf(p) == IF Abs(p[1]) > Abs(p[2]) THEN Abs(p[1]) ELSE Abs(p[2])

GridPoints(max_hops) == (-max_hops..max_hops) \X (-max_hops..max_hops)

\* node_id of the node add_nodes places at p; add_nodes creates the nodes
\* by hop, then sorted(...)
NodeIdAt(max_hops, p) ==
    LET CreatedBefore(q) ==
            \/ HopOf(q) < HopOf(p)
            \/ HopOf(q) = HopOf(p) /\ q[1] < p[1]
            \/ HopOf(q) = HopOf(p) /\ q[1] = p[1] /\ q[2] < p[2]
    IN  1 + Cardinality({ q \in GridPoints(max_hops) : CreatedBefore(q) })

GridPos(max_hops) ==
    [ n \in 1..Cardinality(GridPoints(max_hops)) |->
        CHOOSE p \in GridPoints(max_hops) : NodeIdAt(max_hops, p) = n ]

\* the Initialize events of the processes the constructors start: the Sink
\* (node 1) starts _main_process and _receive_process, every Sensor its
\* _receive_process
InitialQueue(n_nodes) ==
    { [ time |-> 0, prio |-> URGENT, eid |-> 0, kind |-> "init_main", node |-> 1,
        frame |-> NoFrame, i |-> 0 ] }
    \cup { [ time |-> 0, prio |-> URGENT, eid |-> n, kind |-> "init_receive",
             node |-> n, frame |-> NoFrame, i |-> 0 ] : n \in 1..n_nodes }

InitRun ==
    \E max_hops \in HopChoices :
      LET n_nodes == Cardinality(GridPoints(max_hops))
      IN  /\ Constructed([ i \in 1..n_nodes |-> i ])
          /\ queue = InitialQueue(n_nodes)
          /\ eid = n_nodes + 1
          /\ base_loss_rate \in LossRates
          /\ ENABLE_CI = TRUE
          /\ node_pos = GridPos(max_hops)
          /\ radio_txdistance = [ n \in 1..n_nodes |-> default_radio_txdistance ]
          /\ radio_channel = [ n \in 1..n_nodes |-> default_radio_channel ]
          /\ guard_time \in GuardTimes
          /\ max_transmissions \in 0..MaxTx

\* the draws of a resolution that are not the largest draw
LowDraws(draws) ==
    Cardinality({ r \in DOMAIN draws : draws[r] # NoDraw /\ draws[r] < Scale - 1 })

\* Environment.step on the Medium's propagation event in a run
StepPropagateRun ==
    /\ NextIs("propagate")
    /\ \E draws \in DrawChoices(World, RunDraws) :
           /\ stats.low + LowDraws(draws) <= MaxLowDraws
           /\ Commit([Propagate(Pop(World), draws)
                         EXCEPT !.stats.low = @ + LowDraws(draws)])

NextRun ==
    \/ StepInitMain
    \/ StepInitReceive
    \/ StepMainTimeout
    \/ StepInitFlood
    \/ StepFloodTimeout
    \/ StepInitReenable
    \/ StepReenableTimeout
    \/ StepPropagateRun
    \/ StepStorePut
    \/ StepStoreGet
    \/ StepProcEnd

SpecRun == InitRun /\ [][NextRun]_vars

\* env.run() processes events for as long as one is queued: the weak
\* fairness of NextRun, WF_vars(NextRun), with ENABLED <<NextRun>>_vars
\* written out as queue # {} (every queued event has its callback)
EnvRuns == []<>(queue = {}) \/ []<><<NextRun>>_vars

SpecRunFair == SpecRun /\ EnvRuns


(***************************************************************************)
(* Nodes driven by arbitrary protocol logic: every node is a Sensor on the *)
(* line layout, and besides the relays of the Sensors any node may be made *)
(* to send any frame in any tick.  Nothing is lost by fading.  The frames  *)
(* carry a flood id that uuid.uuid4() returns to no Sink.                  *)
(***************************************************************************)
NodeFrames ==
    { Frame("FLOOD_BEACON", 1, dst, 0, FloodBeaconMessage("c")) : dst \in {0, 2} }

InitNode ==
    /\ Constructed([ i \in 1..NumNodes |-> i ])
    /\ queue = { [ time |-> 0, prio |-> URGENT, eid |-> n - 1, kind |-> "init_receive",
                   node |-> n, frame |-> NoFrame, i |-> 0 ] : n \in Nodes }
    /\ eid = NumNodes
    /\ base_loss_rate = 0
    /\ ENABLE_CI = TRUE
    /\ node_pos = LinePos(Nodes)
    /\ radio_txdistance = [ n \in Nodes |-> 10 ]
    /\ radio_channel = [ n \in Nodes |-> default_radio_channel ]
    /\ guard_time \in GuardTimes
    /\ max_transmissions = 1

\* the protocol logic runs once the events queued for the current time have
\* run, and calls Node.send before it sleeps
NodeCallSend ==
    /\ IF queue = {} THEN TRUE ELSE NextEvent(queue).time > now
    /\ \A e \in queue : e.kind # "timeout"
    /\ stats.calls < MaxPuts
    /\ \E n \in Nodes, f \in NodeFrames : Commit(NodeSend(World, n, f))

\* the protocol logic sleeps for one tick: yield self.sleep(1)
NodeCallSleep ==
    /\ IF queue = {} THEN TRUE ELSE NextEvent(queue).time > now
    /\ \A e \in queue : e.kind # "timeout"
    /\ now < MaxTime
    /\ Commit(Sleep(World, 1, "timeout", 0, NoFrame, 0))

NextNode ==
    \/ NodeCallSend
    \/ NodeCallSleep
    \/ StepTimeout
    \/ StepInitReceive
    \/ StepPropagate({Scale - 1})
    \/ StepStorePut
    \/ StepStoreGet
    \/ StepInitFlood
    \/ StepFloodTimeout
    \/ StepInitReenable
    \/ StepReenableTimeout
    \/ StepProcEnd

SpecNode == InitNode /\ [][NextNode]_vars

(***************************************************************************)
(* The Sink and two Sensors on the line layout, driven by env.run() and by *)
(* arbitrary protocol logic: node 1 is the Sink, which triggers its flood  *)
(* after sink_start_delay; a node that has not transmitted may be made to  *)
(* send a frame of another flood at the end of a tick, and the clock may   *)
(* be made to move by single ticks at the start.  A frame may be lost by   *)
(* fading.                                                                 *)
(***************************************************************************)
InitRelay ==
    LET n_nodes == 3
    IN  /\ Constructed([ i \in 1..n_nodes |-> i ])
        /\ queue = InitialQueue(n_nodes)
        /\ eid = n_nodes + 1
        /\ base_loss_rate = default_base_loss_rate
        /\ ENABLE_CI = TRUE
        /\ node_pos = LinePos(1..n_nodes)
        /\ radio_txdistance = [ n \in 1..n_nodes |-> 10 ]
        /\ radio_channel = [ n \in 1..n_nodes |-> default_radio_channel ]
        /\ guard_time \in GuardTimes
        /\ max_transmissions = 1

\* the protocol logic of a node that has not transmitted calls Node.send
\* once the events queued for the current time have run
RelayCallSend ==
    /\ IF queue = {} THEN TRUE ELSE NextEvent(queue).time > now
    /\ \A e \in queue : e.kind # "timeout"
    /\ \E n \in Registered(World), f \in NodeFrames :
           /\ local_tx_count[n] = 0
           /\ Commit(NodeSend(World, n, f))

NextRelay ==
    \/ RelayCallSend
    \/ NodeCallSleep
    \/ StepTimeout
    \/ StepInitMain
    \/ StepInitReceive
    \/ StepMainTimeout
    \/ StepInitFlood
    \/ StepFloodTimeout
    \/ StepInitReenable
    \/ StepReenableTimeout
    \/ StepPropagateRun
    \/ StepStorePut
    \/ StepStoreGet
    \/ StepProcEnd

SpecRelay == InitRelay /\ [][NextRelay]_vars

(***************************************************************************)
(* The Medium before and while the nodes are created: endpoints are        *)
(* registered one by one, and Media.put may be called at any moment, also  *)
(* while none is registered.  No event is processed yet.                   *)
(***************************************************************************)
\* Media.get_output_conn(node_id)
GetOutputConn(w, node_id) == [w EXCEPT !.node_pipes = Append(@, node_id)]

\* Environment(), NetworkManager() and Media(...) as main creates them: no
\* event, no node, no endpoint
NoNodeYet ==
    /\ now = 0
    /\ node_pipes = << >>
    /\ items = [ n \in Nodes |-> << >> ]
    /\ get_waiting = [ n \in Nodes |-> FALSE ]
    /\ pending = << >>
    /\ propagating = FALSE
    /\ last_tx_time = << >>
    /\ radio_rx_enable = [ n \in Nodes |-> TRUE ]
    /\ local_tx_count = [ n \in Nodes |-> 0 ]
    /\ flood_beacon_ids = [ n \in Nodes |-> {} ]
    /\ flood_beacon_times = [ n \in Nodes |-> << >> ]
    /\ msg_seq = -1
    /\ resolved = NoResolution(Nodes)
    /\ tick = TickAt(0, Nodes, TRUE)
    /\ stats = NoStats
    /\ network = NetworkManagerInit
    /\ queue = {}
    /\ eid = 0
    /\ base_loss_rate = default_base_loss_rate
    /\ ENABLE_CI = TRUE
    /\ node_pos = LinePos(Nodes)
    /\ radio_txdistance = [ n \in Nodes |-> 10 ]
    /\ radio_channel = [ n \in Nodes |-> default_radio_channel ]
    /\ guard_time = 1
    /\ max_transmissions = 1

\* Media.__init__: no endpoint is registered
InitBuild == NoNodeYet /\ call = NoCall

\* a node is created: Node.__init__ registers its endpoint
BuildRegister ==
    \E n \in Nodes \ Registered(World) : Commit(GetOutputConn(World, n))

\* Media.put is called with any frame and any sender id
BuildPut ==
    /\ stats.calls + stats.raised < MaxPuts
    /\ \E n \in Nodes, f \in Frames : Commit(MediaPut(World, f, n))

NextBuild ==
    \/ BuildRegister
    \/ BuildPut

SpecBuild == InitBuild /\ [][NextBuild]_vars

(***************************************************************************)
(* main from its call to the creation of the Environment and of the        *)
(* NetworkManager, for arguments on both sides of every bound.  A float is *)
(* a number in units of 1/Scale or NaN, which compares false with          *)
(* everything.                                                             *)
(***************************************************************************)
Float(v) == [ nan |-> FALSE, v |-> v ]

NaN == [ nan |-> TRUE, v |-> 0 ]

\* a < b on floats
FloatLess(a, b) == ~ a.nan /\ ~ b.nan /\ a.v < b.v

\* whether validate_simulation_parameters raises ValueError
ValidateRaises(args) ==
    \/ args.max_transmissions < 0
    \/ FloatLess(args.loss_rate, Float(0)) \/ FloatLess(Float(Scale), args.loss_rate)
    \/ args.max_hops < 1
    \/ args.guard_time < 1

MainArgs ==
    [ max_transmissions : {-1} \cup (0..MaxTx),
      loss_rate : { Float(v) : v \in {-1, Scale + 1} \cup LossRates } \cup {NaN},
      max_hops : {0} \cup HopChoices,
      guard_time : {0} \cup GuardTimes ]

\* main has been called and has not run its first statement
InitArgs ==
    /\ NoNodeYet
    /\ \E args \in MainArgs : call = Call("main", args, "pending", NoResult)

\* validate_simulation_parameters(...), the first statement of main
MainValidate ==
    /\ call.op = "main" /\ call.status = "pending"
    /\ call' = [call EXCEPT !.status = IF ValidateRaises(call.args) THEN "raised"
                                       ELSE "validated"]
    /\ UNCHANGED << now, queue, eid, node_pipes, items, get_waiting, pending,
                    propagating, last_tx_time, base_loss_rate, ENABLE_CI, node_pos,
                    radio_txdistance, radio_channel, guard_time, max_transmissions,
                    radio_rx_enable, local_tx_count, flood_beacon_ids,
                    flood_beacon_times, msg_seq, resolved, tick, stats, network >>

\* env = simpy.Environment() and network_manager = NetworkManager(), reached
\* only when the validation has returned
MainSetup ==
    /\ call.op = "main" /\ call.status = "validated"
    /\ call' = [call EXCEPT !.status = "setup"]
    /\ now' = 0
    /\ queue' = {}
    /\ eid' = 0
    /\ network' = NetworkManagerInit
    /\ UNCHANGED << node_pipes, items, get_waiting, pending,
                    propagating, last_tx_time, base_loss_rate, ENABLE_CI, node_pos,
                    radio_txdistance, radio_channel, guard_time, max_transmissions,
                    radio_rx_enable, local_tx_count, flood_beacon_ids,
                    flood_beacon_times, msg_seq, resolved, tick, stats >>

NextArgs ==
    \/ MainValidate
    \/ MainSetup

SpecArgs == InitArgs /\ [][NextArgs]_vars

(***************************************************************************)
(* The NetworkManager used by any caller: node objects, two for each id,   *)
(* are added, removed and looked up in any order.                          *)
(***************************************************************************)
NodeObjects == { NodeObject(o, i) : o \in {1, 2}, i \in Nodes }

\* network.add_node(node)
RegistryAddNode ==
    /\ \E node \in NodeObjects :
           /\ network' = AddNode(network, node)
           /\ call' = Call("add_node", [ node |-> node ],
                           IF AddNodeRaises(network, node) THEN "raised" ELSE "returned",
                           NoResult)
    /\ UNCHANGED << now, queue, eid, node_pipes, items, get_waiting, pending,
                    propagating, last_tx_time, base_loss_rate, ENABLE_CI, node_pos,
                    radio_txdistance, radio_channel, guard_time, max_transmissions,
                    radio_rx_enable, local_tx_count, flood_beacon_ids,
                    flood_beacon_times, msg_seq, resolved, tick, stats >>

\* network.remove_node(node)
RegistryRemoveNode ==
    /\ \E node \in NodeObjects :
           /\ network' = RemoveNode(network, node)
           /\ call' = Call("remove_node", [ node |-> node ],
                           IF RemoveNodeRaises(network, node) THEN "raised"
                           ELSE "returned",
                           NoResult)
    /\ UNCHANGED << now, queue, eid, node_pipes, items, get_waiting, pending,
                    propagating, last_tx_time, base_loss_rate, ENABLE_CI, node_pos,
                    radio_txdistance, radio_channel, guard_time, max_transmissions,
                    radio_rx_enable, local_tx_count, flood_beacon_ids,
                    flood_beacon_times, msg_seq, resolved, tick, stats >>

\* network.get_node(node_id)
RegistryGetNode ==
    /\ \E node_id \in Nodes :
           call' = IF GetNodeRaises(network, node_id)
                   THEN Call("get_node", [ node_id |-> node_id ], "raised", NoResult)
                   ELSE Call("get_node", [ node_id |-> node_id ], "returned",
                             [ node |-> network.node_by_id[node_id] ])
    /\ UNCHANGED << now, queue, eid, node_pipes, items, get_waiting, pending,
                    propagating, last_tx_time, base_loss_rate, ENABLE_CI, node_pos,
                    radio_txdistance, radio_channel, guard_time, max_transmissions,
                    radio_rx_enable, local_tx_count, flood_beacon_ids,
                    flood_beacon_times, msg_seq, resolved, tick, stats, network >>

NextRegistry ==
    \/ RegistryAddNode
    \/ RegistryRemoveNode
    \/ RegistryGetNode

SpecRegistry == InitBuild /\ [][NextRegistry]_vars

(***************************************************************************)
(* The results of a run (results.py) and the end of main (core.py): main   *)
(* calls get_results once env.run() has returned.                          *)
(***************************************************************************)
Min(S) == CHOOSE x \in S : \A y \in S : x <= y

Max(S) == CHOOSE x \in S : \A y \in S : y <= x

\* a / b of two integers as a float: the exact quotient
Quotient(a, b) == [ num |-> a, den |-> b ]

\* whether a quotient == 1.0: a / b is 1.0 exactly when a = b
IsOne(q) == q.num = q.den

\* mutant: only the nodes that have retransmitted count as reached
ReceivedNodes_Transmitted(w, nodes) ==
    SelectSeq(nodes, LAMBDA node : w.local_tx_count[node.node_id] > 0)

\* [node for node in nodes if node.flood_beacon_ids]
ReceivedNodes(w, nodes) ==
    SelectSeq(nodes, LAMBDA node : w.flood_beacon_ids[node.node_id] # {})

\* len(received_nodes) / total_nodes if total_nodes > 0 else 0.0
FloodCoverage(received_nodes, total_nodes) ==
    IF total_nodes > 0 THEN Quotient(Len(received_nodes), total_nodes)
    ELSE Quotient(0, 1)

\* the values of first_rx_times: min(times) of every flood id of every node
\* of received_nodes whose set of times is not empty
FirstRxTimes(w, received_nodes) ==
    UNION { { Min(w.flood_beacon_times[received_nodes[j].node_id][f]) :
                f \in { g \in DOMAIN w.flood_beacon_times[received_nodes[j].node_id] :
                           w.flood_beacon_times[received_nodes[j].node_id][g] # {} } } :
            j \in 1..Len(received_nodes) }

\* completion_time
CompletionTime(w, received_nodes, flood_success) ==
    IF flood_success /\ FirstRxTimes(w, received_nodes) # {}
    THEN Max(FirstRxTimes(w, received_nodes))
    ELSE 0

\* sum(node.local_tx_count for node in manager.nodes)
RECURSIVE TotalTransmissions(_, _)
TotalTransmissions(w, nodes) ==
    IF Len(nodes) = 0 THEN 0
    ELSE w.local_tx_count[nodes[1].node_id] + TotalTransmissions(w, Tail(nodes))

\* nodes[0] of an empty list raises IndexError
GetResultsRaises(manager) == Len(manager.nodes) = 0

\* get_results: the SimulationResults it returns
GetResults(w, manager) ==
    LET nodes == manager.nodes
        total_nodes == Len(nodes)
        received_nodes == ReceivedNodes(w, nodes)
        flood_coverage == FloodCoverage(received_nodes, total_nodes)
        flood_success == IsOne(flood_coverage)
    IN  [ max_transmissions |-> max_transmissions,
          loss_rate |-> base_loss_rate,
          guard_time |-> guard_time,
          device_count |-> total_nodes,
          flood_coverage |-> flood_coverage,
          flood_success |-> flood_success,
          completion_time |-> CompletionTime(w, received_nodes, flood_success),
          total_transmissions |-> TotalTransmissions(w, nodes) ]

\* mutant: env.run() returns while events are queued
EnvRunReturns_Early(w) == TRUE

\* env.run() without until returns when no event is left
EnvRunReturns(w) == w.queue = {}

\* the end of main: env.run() has returned and get_results is called
MainGetResults ==
    /\ call = NoCall
    /\ EnvRunReturns(World)
    /\ call' = IF GetResultsRaises(network)
               THEN Call("get_results", NoResult, "raised", NoResult)
               ELSE Call("get_results", NoResult, "returned",
                         GetResults(World, network))
    /\ UNCHANGED << now, queue, eid, node_pipes, items, get_waiting, pending,
                    propagating, last_tx_time, base_loss_rate, ENABLE_CI, node_pos,
                    radio_txdistance, radio_channel, guard_time, max_transmissions,
                    radio_rx_enable, local_tx_count, flood_beacon_ids,
                    flood_beacon_times, msg_seq, resolved, tick, stats, network >>

NextResults ==
    \/ NextRun
    \/ MainGetResults

SpecResults == InitRun /\ [][NextResults]_vars

(***************************************************************************)
(* Runs of main on grids of one and of two hops with base_loss_rate 0 and  *)
(* at least one retransmission, followed by get_results.  Every draw is    *)
(* the smallest value random() returns, the one that loses a frame at the  *)
(* smallest loss rate.                                                     *)
(***************************************************************************)
InitGrid ==
    \E max_hops \in {1, 2} :
      LET n_nodes == Cardinality(GridPoints(max_hops))
      IN  /\ Constructed([ i \in 1..n_nodes |-> i ])
          /\ queue = InitialQueue(n_nodes)
          /\ eid = n_nodes + 1
          /\ base_loss_rate = 0
          /\ ENABLE_CI = TRUE
          /\ node_pos = GridPos(max_hops)
          /\ radio_txdistance = [ n \in 1..n_nodes |-> default_radio_txdistance ]
          /\ radio_channel = [ n \in 1..n_nodes |-> default_radio_channel ]
          /\ guard_time \in GuardTimes
          /\ max_transmissions \in 1..MaxTx

NextGrid ==
    \/ StepInitMain
    \/ StepInitReceive
    \/ StepMainTimeout
    \/ StepInitFlood
    \/ StepFloodTimeout
    \/ StepInitReenable
    \/ StepReenableTimeout
    \/ StepPropagate({0})
    \/ StepStorePut
    \/ StepStoreGet
    \/ StepProcEnd
    \/ MainGetResults

SpecGrid == InitGrid /\ [][NextGrid]_vars

\* main runs on: the weak fairness of NextGrid, WF_vars(NextGrid), with
\* ENABLED <<NextGrid>>_vars written as what it is, an event is queued or
\* get_results has not been called
GridRuns == []<>(queue = {} /\ call # NoCall) \/ []<><<NextGrid>>_vars

SpecGridFair == SpecGrid /\ GridRuns

(***************************************************************************)
(* Properties.                                                             *)
(***************************************************************************)
\* Environment.step has popped an event of this kind in the step
Popped(kind) == NextIs(kind) /\ NextEvent(queue) \notin queue'

FartherThanRange(sender, receiver) ==
    100 * Dist2(node_pos[sender], node_pos[receiver])
        > radio_txdistance[sender] * radio_txdistance[sender]

AtRange(sender, receiver) ==
    100 * Dist2(node_pos[sender], node_pos[receiver])
        = radio_txdistance[sender] * radio_txdistance[sender]

SameChannel(sender, receiver) == radio_channel[sender] = radio_channel[receiver]

AllIdentical(transmissions) ==
    \A i, j \in 1..Len(transmissions) :
        Identity(transmissions[i].frame) = Identity(transmissions[j].frame)

\* C1: pending never holds two Transmissions of one sender id, and a put by
\* a transmitter_id that was already handed to Media.put in the same tick
\* leaves the state of the Medium as it is.
C1_OneTransmissionPerSender ==
    /\ \A i, j \in 1..Len(pending) :
           pending[i].sender_id = pending[j].sender_id => i = j
    /\ \A n \in PutInTick, f \in Frames :
           LET w == MediaPut(World, f, n)
           IN  /\ w.pending = pending
               /\ w.last_tx_time = last_tx_time
               /\ w.propagating = propagating
               /\ w.queue = queue

\* C1 witness: a sender whose Transmission is pending was handed to Media.put
\* a second time in the tick, next to the Transmission of another sender
C1_Witness ==
    /\ Len(pending) >= 2
    /\ \E n \in tick.deduped : n \in SendersOf(pending)

\* C2: a resolution pushes no frame onto the Channel Endpoint of a node that
\* has a Transmission in the batch it resolves.
C2_SenderReceivesNothing ==
    [][Popped("propagate") =>
          \A n \in SenderIds(World) : items'[n] = items[n]]_vars

\* C2 witness: a resolved batch with a sender that another sender of the batch
\* reaches on its channel, while a node that sent nothing got a frame
C2_Witness ==
    /\ resolved.done
    /\ \E n, m \in SendersOf(resolved.batch) :
           /\ n # m
           /\ ~ FartherThanRange(m, n)
           /\ SameChannel(m, n)
           /\ items[n] = << >>
    /\ \E r \in Nodes : items[r] # << >>

\* C3: in a run, every transmission handed to Media.put in a tick is resolved
\* in one batch: no put of the tick comes after the resolution, and a tick
\* with at least one put is resolved exactly once.
C3_OneBatchPerTick ==
    /\ tick.past_ok
    /\ ~ tick.late
    /\ tick.deduped = {}
    /\ tick.resolves <= 1
    /\ tick.resolves = 1 => (resolved.batch = tick.admitted /\ tick.admitted # << >>)
    /\ tick.resolves = 0 => pending = tick.admitted
    /\ queue = {} => TickClosed(tick)

\* C3 witness: a tick in which several nodes sent and were resolved together
C3_Witness ==
    /\ tick.resolves = 1
    /\ Len(resolved.batch) >= 2
    /\ resolved.batch = tick.admitted

\* C4: what the resolutions of a tick have evaluated, followed by what is
\* pending, is what Media.put admitted in that tick, and pending is empty
\* when a resolution returns.
C4_ExactBatch ==
    /\ [](tick.admitted = tick.evaluated \o pending)
    /\ [][Popped("propagate") =>
             (pending' = << >> /\ tick'.evaluated = tick.evaluated \o pending)]_vars

\* C4 witness: a batch resolved in a tick that follows a tick with
\* transmissions of its own
C4_Witness ==
    /\ now >= 1
    /\ tick.resolves >= 1
    /\ tick.evaluated # << >>
    /\ pending = << >>
    /\ stats.admitted > Len(tick.admitted)

\* C5: a receiver whose filtered candidates carry two different frame
\* identities gets nothing, whatever base_loss_rate and ENABLE_CI are.
C5_DistinctFramesCollide ==
    resolved.done =>
        \A r \in Nodes :
            (\E i, j \in 1..Len(resolved.rx[r]) :
                 Identity(resolved.rx[r][i].frame) # Identity(resolved.rx[r][j].frame))
            => items[r] = << >>

\* C5 witness: two different frames reached a receiver with constructive
\* interference enabled and a loss rate of 0
C5_Witness ==
    /\ resolved.done
    /\ ENABLE_CI
    /\ base_loss_rate = 0
    /\ \E r \in Nodes :
           /\ \E i, j \in 1..Len(resolved.rx[r]) :
                  Identity(resolved.rx[r][i].frame) # Identity(resolved.rx[r][j].frame)
           /\ items[r] = << >>

\* C6: with ENABLE_CI false, two or more candidates give the receiver
\* nothing, identical or not, whatever base_loss_rate is.
C6_NoCIAllLost ==
    (resolved.done /\ ~ ENABLE_CI) =>
        \A r \in DOMAIN resolved.rx :
            Len(resolved.rx[r]) >= 2 => resolved.out[r] = << >>

\* C6 witness: identical frames, a loss rate of 0, ENABLE_CI false
C6_Witness ==
    /\ resolved.done
    /\ ~ ENABLE_CI
    /\ base_loss_rate = 0
    /\ \E r \in DOMAIN resolved.rx :
           /\ Len(resolved.rx[r]) >= 2
           /\ AllIdentical(resolved.rx[r])
           /\ resolved.out[r] = << >>

\* C7: a receiver farther from every sender of the batch than that sender's
\* range gets nothing, for every draw, and a transmission from exactly the
\* range passes the range filter.
C7_RangeFilter ==
    resolved.done =>
        \A r \in Nodes :
            /\ (\A j \in 1..Len(resolved.batch) :
                    FartherThanRange(resolved.batch[j].sender_id, r))
               => items[r] = << >>
            /\ \A j \in 1..Len(resolved.batch) :
                   ( /\ r \notin SendersOf(resolved.batch)
                     /\ AtRange(resolved.batch[j].sender_id, r)
                     /\ SameChannel(resolved.batch[j].sender_id, r) )
                   => \E i \in 1..Len(resolved.rx[r]) :
                          resolved.rx[r][i] = resolved.batch[j]

\* C7 witness: one receiver out of every sender's range, another at exactly
\* the range of a sender that got the frame
C7_Witness ==
    /\ resolved.done
    /\ \E r \in Nodes :
           /\ \A j \in 1..Len(resolved.batch) :
                  FartherThanRange(resolved.batch[j].sender_id, r)
           /\ items[r] = << >>
    /\ \E r \in Nodes, j \in 1..Len(resolved.batch) :
           /\ AtRange(resolved.batch[j].sender_id, r)
           /\ items[r] = << resolved.batch[j].frame >>

\* C8: a receiver whose radio_channel differs from the radio_channel of
\* every sender of the batch gets nothing, whatever the distances are.
C8_ChannelFilter ==
    resolved.done =>
        \A r \in Nodes :
            (\A j \in 1..Len(resolved.batch) :
                 radio_channel[r] # radio_channel[resolved.batch[j].sender_id])
            => items[r] = << >>

\* C8 witness: a receiver retuned by set_channel, in range of a sender that
\* loses nothing, got no frame while a receiver on the sender's channel did
C8_Witness ==
    /\ resolved.done
    /\ base_loss_rate = 0
    /\ Len(resolved.batch) = 1
    /\ \E r \in Nodes :
           /\ radio_channel[r] # default_radio_channel
           /\ radio_channel[resolved.batch[1].sender_id] = default_radio_channel
           /\ ~ FartherThanRange(resolved.batch[1].sender_id, r)
           /\ r # resolved.batch[1].sender_id
           /\ items[r] = << >>
    /\ \E r \in Nodes : items[r] # << >>

\* C9: in a run no Channel Endpoint gets more than one frame in a tick, and
\* what identical candidates deliver is the first candidate.
C9_AtMostOneFrame ==
    \A r \in Registered(World) :
        /\ tick.pushed[r] <= 1
        /\ (resolved.done /\ Len(resolved.rx[r]) >= 2 /\ resolved.out[r] # << >>)
           => /\ resolved.out[r] = << resolved.rx[r][1].frame >>
              /\ LossHandler(resolved.rx[r], r, resolved.draw[r])
                     = << resolved.rx[r][1] >>

\* C9 witness: a receiver reached by several senders at once got one frame
C9_Witness ==
    \E r \in Registered(World) :
        /\ resolved.done
        /\ Len(resolved.rx[r]) >= 2
        /\ tick.pushed[r] = 1
        /\ resolved.out[r] = << resolved.rx[r][1].frame >>

\* the least draw that is not below 0.6 ** math.log2(k + 1), for k = 1 .. 7:
\* the powers are 0.6, 0.44502, 0.36, 0.30541, 0.26701, 0.23834 and 0.216
PowerOfSixTenths == << 6000, 4451, 3600, 3055, 2671, 2384, 2160 >>

\* the least draw that is not below base_loss_rate ** math.log2(k + 1), for
\* the loss rates 0, 0.0001, 0.6 and 1; a power of 0.0001 is above 0 and at
\* most 0.0001
ReferenceLoss(rate, k) ==
    IF rate = 0 THEN 0
    ELSE IF rate = Scale THEN Scale
    ELSE IF rate = 1 THEN 1
    ELSE PowerOfSixTenths[k]

\* the double x is within 0.0005 of b / Scale
Close(x, b) == DoubleLess(Random(b - 5), x) /\ DoubleLess(x, Random(b + 5))

\* C10: with ENABLE_CI, k >= 2 identical candidates are lost exactly when the
\* one draw is below base_loss_rate ** log2(k + 1), which is about 0.4449
\* for a base_loss_rate of 0.6 and k = 2.  The power written out in
\* PowerTable is the power DoublePow computes.
C10_ConstructiveLoss ==
    /\ (resolved.done /\ ENABLE_CI) =>
          \A r \in DOMAIN resolved.rx :
              (Len(resolved.rx[r]) >= 2 /\ AllIdentical(resolved.rx[r]))
              => LET k == Len(resolved.rx[r])
                     loss == ReferenceLoss(base_loss_rate, k)
                     effective_loss == EffectiveLoss(base_loss_rate, k)
                 IN  /\ resolved.draw[r] # NoDraw
                     /\ (resolved.out[r] = << >>) <=> (resolved.draw[r] < loss)
                     /\ loss > 0 => DoubleLess(Random(loss - 1), effective_loss)
                     /\ ~ DoubleLess(Random(loss), effective_loss)
                     /\ resolved.draw[r] = 0 =>
                            effective_loss = DoublePow(DoubleOf(base_loss_rate, Scale),
                                                       DoubleLog2(k + 1))
    /\ Close(EffectiveLoss(default_base_loss_rate, 2), 4449)

\* C10 witness: two identical candidates at a loss rate of 0.6 and a draw of
\* 0.4451, which loses a lone candidate, deliver
C10_Witness ==
    /\ resolved.done
    /\ ENABLE_CI
    /\ base_loss_rate = default_base_loss_rate
    /\ \E r \in DOMAIN resolved.rx :
           /\ Len(resolved.rx[r]) = 2
           /\ AllIdentical(resolved.rx[r])
           /\ resolved.draw[r] = 4451
           /\ resolved.out[r] = << resolved.rx[r][1].frame >>

\* C11: at a loss rate of 0, a receiver that the one sender of a batch
\* reaches on its channel gets exactly that sender's frame, for every draw.
C11_LosslessDelivery ==
    (resolved.done /\ base_loss_rate = 0 /\ Len(resolved.batch) = 1) =>
        \A r \in Nodes :
            ( /\ r # resolved.batch[1].sender_id
              /\ ~ FartherThanRange(resolved.batch[1].sender_id, r)
              /\ SameChannel(resolved.batch[1].sender_id, r) )
            => items[r] = << resolved.batch[1].frame >>

\* C11 witness: the frame arrived although the draw was the smallest one
C11_Witness ==
    /\ resolved.done
    /\ base_loss_rate = 0
    /\ Len(resolved.batch) = 1
    /\ \E r \in Nodes :
           /\ resolved.draw[r] = 0
           /\ items[r] = << resolved.batch[1].frame >>

\* C12: at a loss rate of 1, a receiver with a single candidate gets nothing,
\* for every draw.
C12_TotalLoss ==
    (resolved.done /\ base_loss_rate = Scale) =>
        \A r \in Nodes : Len(resolved.rx[r]) = 1 => items[r] = << >>

\* C12 witness: the single candidate was lost although the draw was the
\* largest one
C12_Witness ==
    /\ resolved.done
    /\ base_loss_rate = Scale
    /\ \E r \in Nodes :
           /\ Len(resolved.rx[r]) = 1
           /\ resolved.draw[r] = Scale - 1
           /\ items[r] = << >>

\* the node has sent and its guard time is not over
InGuardTime(n) ==
    /\ n \in DOMAIN last_tx_time
    /\ last_tx_time[n] <= now
    /\ now < last_tx_time[n] + guard_time

\* the step starts a relay of the node
RelayStarted(n) ==
    \E e \in queue' \ queue : e.kind = "init_flood" /\ e.node = n

\* C13: from a send at T until T + guard_time the radio of the node stays
\* disabled, it is enabled again at T + guard_time and no sooner, and a frame
\* handed to Node.receive in between is dropped: None is returned, nothing
\* is recorded, no relay is started.
C13_GuardTimeDrop ==
    /\ [](\A n \in Nodes : InGuardTime(n) => ~ radio_rx_enable[n])
    /\ [][\A n \in Nodes :
             (~ radio_rx_enable[n] /\ radio_rx_enable'[n])
             => now' = last_tx_time[n] + guard_time]_vars
    /\ [][Popped("store_get") =>
             LET n == NextEvent(queue).node
                 frame == NextEvent(queue).frame
             IN  InGuardTime(n) =>
                     /\ ~ ReceiveAdmits(World, n, frame)
                     /\ flood_beacon_ids'[n] = flood_beacon_ids[n]
                     /\ flood_beacon_times'[n] = flood_beacon_times[n]
                     /\ ~ RelayStarted(n)]_vars

\* C13 witness: a broadcast frame was handed to a node one tick after the
\* node sent, within its guard time, and the node has recorded nothing
C13_Witness ==
    \E h \in tick.handed :
        /\ ~ h.listening
        /\ h.frame.DST = 0
        /\ InGuardTime(h.node)
        /\ last_tx_time[h.node] < now
        /\ flood_beacon_ids[h.node] = {}

\* the frame is a broadcast or addressed to the node
ForNode(frame, n) == frame.DST = 0 \/ frame.DST = n

\* C14: a frame handed to Node.receive of a Listening node is returned
\* exactly if its DST is 0 or the node's id; any other frame is dropped:
\* nothing is recorded and no relay is started.
C14_DestinationFilter ==
    [][Popped("store_get") =>
          LET n == NextEvent(queue).node
              frame == NextEvent(queue).frame
          IN  radio_rx_enable[n] =>
                  /\ ReceiveAdmits(World, n, frame) <=> ForNode(frame, n)
                  /\ ForNode(frame, n) =>
                         frame.PAYLOAD.FLOOD_ID \in flood_beacon_ids'[n]
                  /\ ~ ForNode(frame, n) =>
                         /\ flood_beacon_ids'[n] = flood_beacon_ids[n]
                         /\ flood_beacon_times'[n] = flood_beacon_times[n]
                         /\ ~ RelayStarted(n)]_vars

\* C14 witness: a Listening node was handed a frame addressed to node 2 and
\* has recorded nothing, and node 2 has recorded a frame it was handed
C14_Witness ==
    /\ \E h \in tick.handed :
           /\ h.listening
           /\ h.frame.DST = 2
           /\ h.node # 2
           /\ flood_beacon_ids[h.node] = {}
    /\ flood_beacon_ids[2] # {}

\* C15: when a Listening node is handed a flood beacon that is a broadcast
\* or addressed to it, the flood id is in flood_beacon_ids afterwards and
\* the current time in flood_beacon_times of that id, next to the times
\* recorded before, whether or not the flood was seen before.
C15_BeaconRecorded ==
    [][Popped("store_get") =>
          LET n == NextEvent(queue).node
              frame == NextEvent(queue).frame
              flood_id == frame.PAYLOAD.FLOOD_ID
          IN  (radio_rx_enable[n] /\ ForNode(frame, n) /\ frame.TYPE = "FLOOD_BEACON")
              => /\ flood_id \in flood_beacon_ids'[n]
                 /\ flood_id \in DOMAIN flood_beacon_times'[n]
                 /\ now' \in flood_beacon_times'[n][flood_id]
                 /\ flood_id \in DOMAIN flood_beacon_times[n] =>
                        flood_beacon_times[n][flood_id]
                            \subseteq flood_beacon_times'[n][flood_id]]_vars

\* C15 witness: a node has just recorded a second reception of a flood
C15_Witness ==
    \E h \in tick.handed :
        /\ h.listening
        /\ h.frame.PAYLOAD.FLOOD_ID \in DOMAIN flood_beacon_times[h.node]
        /\ now \in flood_beacon_times[h.node][h.frame.PAYLOAD.FLOOD_ID]
        /\ Cardinality(flood_beacon_times[h.node][h.frame.PAYLOAD.FLOOD_ID]) >= 2

\* an event of this kind for the node is queued for this time
Queued(q, kind, n, time) ==
    \E e \in q : e.kind = kind /\ e.node = n /\ e.time = time

\* C16: Node.send on a Listening node appends the node's frame to the batch
\* of the current tick, adds one to its local_tx_count alone, disables its
\* radio and starts reenable_rx, whose first step sets the Timeout that
\* fires guard_time later.
C16_SendEffects ==
    /\ [](\A n \in Nodes, f \in NodeFrames :
             radio_rx_enable[n] =>
                 LET w == NodeSend(World, n, f)
                 IN  /\ w.pending = Append(pending, Transmission(f, n))
                     /\ Queued(w.queue, "propagate", 0, now)
                     /\ w.local_tx_count =
                            [local_tx_count EXCEPT ![n] = local_tx_count[n] + 1]
                     /\ w.radio_rx_enable = [radio_rx_enable EXCEPT ![n] = FALSE]
                     /\ Queued(w.queue \ queue, "init_reenable", n, now))
    /\ [][Popped("init_reenable") =>
             LET n == NextEvent(queue).node
             IN  /\ Queued(queue' \ queue, "reenable_timeout", n, now + guard_time)
                 /\ ~ radio_rx_enable'[n]]_vars

\* C16 witness: a node has just sent for the second time
C16_Witness ==
    \E n \in Nodes :
        /\ n \in SendersOf(pending)
        /\ ~ radio_rx_enable[n]
        /\ local_tx_count[n] = 2
        /\ n \in DOMAIN last_tx_time
        /\ last_tx_time[n] = now
        /\ Queued(queue, "init_reenable", n, now)

\* C17: a node whose radio is disabled by a send at T has its re-enabling
\* queued for T + guard_time, the Timeout of reenable_rx enables the radio
\* at exactly that time, and once the event queue is empty every radio is
\* enabled.
C17_ReenableAfterGuardTime ==
    /\ [](\A n \in Registered(World) :
             ~ radio_rx_enable[n] =>
                 /\ n \in DOMAIN last_tx_time
                 /\ now <= last_tx_time[n] + guard_time
                 /\ \/ Queued(queue, "init_reenable", n, last_tx_time[n])
                    \/ Queued(queue, "reenable_timeout", n,
                              last_tx_time[n] + guard_time))
    /\ [](queue = {} => \A n \in Registered(World) : radio_rx_enable[n])
    /\ [][Popped("reenable_timeout") =>
             LET n == NextEvent(queue).node
             IN  /\ ~ radio_rx_enable[n]
                 /\ radio_rx_enable'[n]
                 /\ now' = last_tx_time[n] + guard_time]_vars

\* C17 witness: the run is over, every node has transmitted and every
\* radio is enabled
C17_Witness ==
    /\ queue = {}
    /\ \A n \in Registered(World) : local_tx_count[n] >= 1 /\ radio_rx_enable[n]

\* the events a run queues, each with its step of NextRun
RunEvents == { "init_main", "init_receive", "main_timeout", "init_flood",
               "flood_timeout", "init_reenable", "reenable_timeout",
               "propagate", "store_put", "store_get", "proc_end" }

\* C18: every run of a valid configuration reaches, after finitely many
\* events, an empty event queue and stays there, and whenever the queue is
\* empty the receive process of every node is waiting on its endpoint,
\* which holds no frame.
C18_RunTerminates ==
    /\ <>[](queue = {})
    /\ [](queue # {} => NextEvent(queue).kind \in RunEvents)
    /\ [](queue = {} =>
            \A n \in Registered(World) : get_waiting[n] /\ items[n] = << >>)

\* C18 witness: the queue is empty after the flood, which the sink and a
\* sensor have transmitted, and every receive process is waiting
C18_Witness ==
    /\ queue = {}
    /\ now >= sink_start_delay
    /\ \E n \in Registered(World) : n # 1 /\ local_tx_count[n] >= 1
    /\ \A n \in Registered(World) : get_waiting[n] /\ items[n] = << >>

\* the bookkeeping the results are computed from
Bookkeeping(w) ==
    [ flood_beacon_ids |-> w.flood_beacon_ids,
      flood_beacon_times |-> w.flood_beacon_times,
      local_tx_count |-> w.local_tx_count ]

\* C19: in a run the configuration and the seed fix what happens next: one
\* event of the queue is before every other, and the step of the sink that
\* starts the flood leaves the same queue and the same bookkeeping (flood
\* ids seen, reception times, transmit counts) whatever flood id is drawn.
C19_SeedDeterminesRun ==
    /\ \A e1, e2 \in queue : e1 # e2 => Before(e1, e2) \/ Before(e2, e1)
    /\ NextIs("main_timeout") =>
           \A id1, id2 \in FloodIds :
               LET w1 == MainResume(Pop(World), NextEvent(queue).node, id1)
                   w2 == MainResume(Pop(World), NextEvent(queue).node, id2)
               IN  w1.queue = w2.queue /\ Bookkeeping(w1) = Bookkeeping(w2)

\* C19 witness: two finished runs are possible from one configuration and
\* one sequence of draws: the sink has flooded, the queue is empty, and the
\* flood ids seen are those of the one run or of the other
C19_Witness ==
    /\ queue = {}
    /\ now >= sink_start_delay
    /\ flood_beacon_ids[1] = {"b"}
    /\ stats.low = 0

\* C20: while no endpoint is registered every call of Media.put raises and
\* leaves the Medium as it was: the pending batch, the map of last
\* transmission times, the event queue and the propagating flag are those
\* before the call, and so they are still those of the construction.
C20_PutWithoutEndpoint ==
    Len(node_pipes) = 0 =>
        /\ \A n \in Nodes, f \in Frames :
               LET w == MediaPut(World, f, n)
               IN  /\ MediaPutRaises(World)
                   /\ w.stats.raised = stats.raised + 1
                   /\ w.pending = pending
                   /\ w.last_tx_time = last_tx_time
                   /\ w.queue = queue
                   /\ w.eid = eid
                   /\ w.propagating = propagating
        /\ pending = << >>
        /\ last_tx_time = << >>
        /\ queue = {}
        /\ ~ propagating

\* C20 witness: Media.put has been called, and has raised, more than once
\* and still no endpoint is registered
C20_Witness ==
    /\ Len(node_pipes) = 0
    /\ stats.raised >= 2
    /\ stats.calls = 0

\* C22: add_node with an id in use, remove_node of a node object that is
\* not in the list, and get_node of an id that is not in the map each raise
\* and leave nodes, _node_by_id and node_count as they were.
C22_RegistryMisuse ==
    [][ /\ ( call'.op = "add_node"
              /\ call'.args.node.node_id \in DOMAIN network.node_by_id )
             => call'.status = "raised" /\ network' = network
        /\ ( call'.op = "remove_node" /\ ~ InNodes(network, call'.args.node) )
             => call'.status = "raised" /\ network' = network
        /\ ( call'.op = "get_node"
              /\ call'.args.node_id \notin DOMAIN network.node_by_id )
             => call'.status = "raised" /\ network' = network
        /\ call'.status = "raised" => network' = network ]_vars

\* C22 witness: remove_node has raised for a node object that is not
\* registered while another object with its id is, and add_node of it would
\* raise too
C22_Witness ==
    /\ call.op = "remove_node"
    /\ call.status = "raised"
    /\ network.node_count = 2
    /\ AddNodeRaises(network, call.args.node)
    /\ ~ InNodes(network, call.args.node)

\* the arguments main is documented to accept
InsideBounds(args) ==
    /\ args.max_transmissions >= 0
    /\ ~ args.loss_rate.nan
    /\ args.loss_rate.v >= 0
    /\ args.loss_rate.v <= Scale
    /\ args.max_hops >= 1
    /\ args.guard_time >= 1

\* C21: once main is past its validation, it has raised the error exactly
\* when an argument is outside its bounds, and a call that raised never
\* reaches the creation of the Environment.
C21_ConfigurationValidated ==
    ( call.op = "main" /\ call.status # "pending" ) =>
        /\ call.status = "raised" <=> ~ InsideBounds(call.args)
        /\ call.status = "setup" => InsideBounds(call.args)

\* C21 witness: main has accepted a loss rate that is no number in [0, 1]
\* and has created the Environment
C21_Witness ==
    /\ call.op = "main"
    /\ call.status = "setup"
    /\ call.args.loss_rate.nan

\* C23, as the claim states it: when the resolution of a tick finishes the
\* pending batch is empty and the map of last transmission times holds no
\* entry for that tick.
C23_TickForgotten ==
    [][ Popped("propagate") =>
            /\ pending' = << >>
            /\ \A t \in DOMAIN last_tx_time' : last_tx_time'[t] # now' ]_vars

\* C23, amended: when the resolution of a tick finishes the pending batch is
\* empty and the propagating flag is down, and the map of last transmission
\* times is what it was before the resolution: it still holds the tick for
\* every sender of the batch.
C23_TickRemembered ==
    [][ Popped("propagate") =>
            /\ pending' = << >>
            /\ ~ propagating'
            /\ last_tx_time' = last_tx_time
            /\ \A j \in 1..Len(pending) :
                   /\ pending[j].sender_id \in DOMAIN last_tx_time'
                   /\ last_tx_time'[pending[j].sender_id] = now' ]_vars

\* C23 witness: a resolution of a batch of two senders has finished in the
\* current tick and both are still in the map with that tick
C23_Witness ==
    /\ tick.resolves > 0
    /\ ~ propagating
    /\ pending = << >>
    /\ Cardinality(SendersOf(tick.evaluated)) >= 2
    /\ \A t \in SendersOf(tick.evaluated) : LastTxTimeIs(World, t, now)

\* C24, as the claim states it: an event that fires has the smallest
\* sequence number of the events queued for its time, so the resolution
\* event of the Medium fires before the start of the re-enable process that
\* Node.send schedules after it.
C24_FifoAtSameTime ==
    [][ \A p \in queue \ queue' : \A e \in queue :
            e.time = p.time => p.eid <= e.eid ]_vars

\* C24, amended: of the events queued for one time the urgent ones (the
\* starts of processes) fire before the normal ones, and events of the same
\* priority fire in the order of their sequence numbers; the start of the
\* re-enable process that Node.send schedules after the resolution event of
\* the Medium fires before that resolution event.
C24_PriorityThenFifo ==
    [][ \A p \in queue \ queue' : \A e \in queue \ {p} :
            /\ p.time <= e.time
            /\ e.time = p.time =>
                   \/ p.prio < e.prio
                   \/ p.prio = e.prio /\ p.eid < e.eid
            /\ ( p.kind = "propagate" /\ e.kind = "init_reenable" ) =>
                   p.time < e.time ]_vars

\* C24 witness: the re-enable process of a send of this tick has started and
\* waits for its timeout while the resolution event scheduled before it in
\* the same send is still queued for this tick
C24_Witness ==
    \E p, r \in queue :
        /\ p.kind = "propagate" /\ p.time = now
        /\ r.kind = "reenable_timeout" /\ r.time = now + guard_time
        /\ p.eid < r.eid
        /\ now >= sink_start_delay

\* C25: at the end of a run no node has transmitted more often than
\* max_transmissions times, the sink included.
C25_AtMostMaxTransmissions ==
    queue = {} =>
        \A n \in Registered(World) : local_tx_count[n] <= max_transmissions

\* C25 witness: the run is over after a flood that a sensor has repeated
\* within its limit, and the sink has transmitted more often than
\* max_transmissions times
C25_Witness ==
    /\ queue = {}
    /\ now >= sink_start_delay
    /\ max_transmissions >= 1
    /\ local_tx_count[1] > max_transmissions
    /\ \E n \in Registered(World) :
           n # 1 /\ local_tx_count[n] >= 1 /\ local_tx_count[n] <= max_transmissions

\* C26: every send call of a flood process puts a Transmission of the node
\* on the Medium and counts as a transmission of the node: none of the
\* max_transmissions retransmissions is suppressed.
C26_EveryRetransmissionSent ==
    [][ Popped("flood_timeout") =>
            LET n == NextEvent(queue).node
            IN  /\ Len(pending') = Len(pending) + 1
                /\ pending'[Len(pending')].sender_id = n
                /\ local_tx_count'[n] = local_tx_count[n] + 1 ]_vars

\* C26 witness: the run is over and a sensor that has received the flood has
\* retransmitted it less often than max_transmissions times
C26_Witness ==
    /\ queue = {}
    /\ max_transmissions >= 2
    /\ \E n \in Registered(World) :
           /\ n # 1
           /\ flood_beacon_ids[n] # {}
           /\ local_tx_count[n] >= 1
           /\ local_tx_count[n] < max_transmissions

\* C27: get_results is called only when the event queue is empty, and the
\* call schedules no event and leaves the clock, the bookkeeping of every
\* node (flood ids, reception times, transmit count, radio flag) and the
\* state of the Medium as they were.
C27_ResultsObservational ==
    [][ ( call'.op = "get_results" /\ call' # call ) =>
            /\ queue = {}
            /\ queue' = queue /\ eid' = eid /\ now' = now
            /\ Bookkeeping(World') = Bookkeeping(World)
            /\ radio_rx_enable' = radio_rx_enable
            /\ pending' = pending
            /\ propagating' = propagating
            /\ last_tx_time' = last_tx_time
            /\ node_pipes' = node_pipes /\ items' = items
            /\ network' = network ]_vars

\* C27 witness: get_results has returned after a flood that the sink and a
\* sensor have transmitted
C27_Witness ==
    /\ call.op = "get_results"
    /\ call.status = "returned"
    /\ now > sink_start_delay
    /\ \E n \in Registered(World) : n # 1 /\ local_tx_count[n] >= 1

\* C28: throughout a run the sum of the transmit counts of the nodes is the
\* number of Transmissions admitted into the pending batches of the Medium,
\* and the total_transmissions that get_results reports is that number.
C28_TotalTransmissionsOnAir ==
    /\ TotalTransmissions(World, network.nodes) = stats.admitted
    /\ ( call.op = "get_results" /\ call.status = "returned" ) =>
           call.result.total_transmissions = stats.admitted

\* C28 witness: get_results has reported the transmissions of a flood in
\* which the sink has transmitted twice and a sensor has transmitted
C28_Witness ==
    /\ call.op = "get_results"
    /\ call.status = "returned"
    /\ local_tx_count[1] >= 2
    /\ call.result.total_transmissions > local_tx_count[1]

\* the nodes that have recorded a flood id: the sink when it triggers the
\* flood, a sensor when it receives a flood beacon
Reached == { n \in Registered(World) : flood_beacon_ids[n] # {} }

\* C29: the reported flood_success is true exactly when every node has
\* recorded the flood, the reported flood_coverage is the number of nodes
\* that have over the number of nodes, and the reported completion_time is
\* 0 whenever flood_success is false.
C29_SuccessAndCoverage ==
    ( call.op = "get_results" /\ call.status = "returned" ) =>
        /\ call.result.flood_success <=> Reached = Registered(World)
        /\ call.result.flood_coverage.num = Cardinality(Reached)
        /\ call.result.flood_coverage.den = Cardinality(Registered(World))
        /\ call.result.device_count = Cardinality(Registered(World))
        /\ 1 \in Reached
        /\ ~ call.result.flood_success => call.result.completion_time = 0

\* C29 witness: get_results has reported a flood that has reached the sink
\* and a sensor but not every node
C29_Witness ==
    /\ call.op = "get_results"
    /\ call.status = "returned"
    /\ ~ call.result.flood_success
    /\ call.result.flood_coverage.num >= 2
    /\ call.result.flood_coverage.num < call.result.flood_coverage.den
    /\ call.result.completion_time = 0

\* the resolution events of the Medium in the event queue
Outstanding == { e \in queue : e.kind = "propagate" }

\* C30: between two events the propagating flag of the Medium is up exactly
\* when the pending batch is not empty and exactly when one resolution
\* event is queued, and two resolution events are never queued together.
C30_OneResolutionOutstanding ==
    /\ propagating <=> pending # << >>
    /\ propagating <=> Cardinality(Outstanding) = 1
    /\ Cardinality(Outstanding) <= 1
    /\ \A e \in Outstanding : e.time = now

\* C30 witness: after an earlier resolution the flag is up, two
\* transmissions are pending and one resolution event is queued
C30_Witness ==
    /\ propagating
    /\ Len(pending) >= 2
    /\ Cardinality(Outstanding) = 1
    /\ stats.admitted > Len(pending)

\* the events of reenable_rx of a node in a queue
ReenableEvents(q, n) ==
    { e \in q : e.node = n /\ e.kind \in {"init_reenable", "reenable_timeout"} }

\* C31: Node.send on a node whose radio is disabled changes nothing: the
\* transmit counts, the Medium, the event queue and the radio flags are
\* those before the call; and the step of a flood process that calls it
\* leaves the count of the node, the pending batch and the map of last
\* transmission times alone, queues no resolution and no re-enabling, and
\* leaves the queued re-enabling of the node at its time.
C31_SendWhileBusy ==
    /\ [](\A n \in Registered(World), f \in NodeFrames :
             ~ radio_rx_enable[n] => NodeSend(World, n, f) = World)
    /\ [][Popped("flood_timeout") =>
             LET n == NextEvent(queue).node
             IN  ~ radio_rx_enable[n] =>
                     /\ local_tx_count' = local_tx_count
                     /\ pending' = pending
                     /\ propagating' = propagating
                     /\ last_tx_time' = last_tx_time
                     /\ radio_rx_enable' = radio_rx_enable
                     /\ stats' = stats
                     /\ ReenableEvents(queue', n) = ReenableEvents(queue, n)
                     /\ Cardinality(ReenableEvents(queue, n)) = 1
                     /\ \A e \in queue' \ queue :
                            e.kind \in {"flood_timeout", "proc_end"} ]_vars

\* C31 witness: the flood process of a node has called send while the radio
\* was still disabled by the send one guard time earlier, and has ended; the
\* re-enabling of the node is still queued for the current time
C31_Witness ==
    \E n \in Registered(World) :
        /\ ~ radio_rx_enable[n]
        /\ n \in DOMAIN last_tx_time
        /\ last_tx_time[n] + guard_time = now
        /\ Queued(queue, "proc_end", n, now)
        /\ Queued(queue, "reenable_timeout", n, now)

\* the flood processes of the node that the step starts
FloodsStarted(n) == { e \in queue' \ queue : e.kind = "init_flood" /\ e.node = n }

\* the events of the flood processes of a node in the queue
FloodEvents(n) ==
    { e \in queue : e.node = n /\ e.kind \in {"init_flood", "flood_timeout"} }

\* C32: a node never forgets a flood id, and a step starts a flood process
\* of a node only for a flood id the node had not recorded and has recorded
\* after the step, so at most once for each flood id: either the node
\* triggers the flood, or its receive process is handed a frame that
\* Node.receive returns.  A frame that Node.receive drops starts no flood
\* process and records nothing, and a frame of a flood the node has
\* recorded, as the sink has the flood it triggered, starts none.
C32_OneRelayPerFlood ==
    [][ \A n \in Registered(World) :
          /\ flood_beacon_ids[n] \subseteq flood_beacon_ids'[n]
          /\ Cardinality(FloodsStarted(n)) <= 1
          /\ \A e \in FloodsStarted(n) :
                 /\ e.frame.PAYLOAD.FLOOD_ID \notin flood_beacon_ids[n]
                 /\ e.frame.PAYLOAD.FLOOD_ID \in flood_beacon_ids'[n]
                 /\ \/ Popped("main_timeout") /\ NextEvent(queue).node = n
                    \/ /\ Popped("store_get")
                       /\ NextEvent(queue).node = n
                       /\ NextEvent(queue).frame = e.frame
                       /\ ReceiveAdmits(World, n, e.frame)
          /\ ( Popped("store_get") /\ NextEvent(queue).node = n ) =>
                 LET frame == NextEvent(queue).frame
                 IN  /\ ~ ReceiveAdmits(World, n, frame) =>
                            /\ FloodsStarted(n) = {}
                            /\ flood_beacon_ids'[n] = flood_beacon_ids[n]
                     /\ frame.PAYLOAD.FLOOD_ID \in flood_beacon_ids[n] =>
                            FloodsStarted(n) = {} ]_vars

\* C32 witness: the Sink, which has triggered its flood and whose own flood
\* process has ended, has been handed in this tick, with its radio enabled,
\* the beacon of that flood as a Sensor relayed it, and has started no flood
\* process for it; a Sensor has the one flood process that its reception of
\* that beacon started
C32_Witness ==
    /\ msg_seq >= 0
    /\ FloodEvents(1) = {}
    /\ \E h \in tick.handed :
           /\ h.node = 1
           /\ h.listening
           /\ h.frame.SRC = 1
           /\ h.frame.PAYLOAD.FLOOD_ID \in FloodIds
           /\ Cardinality(flood_beacon_times[1][h.frame.PAYLOAD.FLOOD_ID]) >= 2
           /\ \E n \in Registered(World) \ {1} :
                  /\ Cardinality(FloodEvents(n)) = 1
                  /\ \E e \in FloodEvents(n) : e.frame = h.frame

\* C33: the radio of a node is disabled exactly when one reenable_rx of the
\* node is outstanding (started or waiting for its Timeout), two are never
\* outstanding for one node, and the outstanding one is due guard_time
\* after the last transmission of the node, not sooner.
C33_OneReenableOutstanding ==
    \A n \in Registered(World) :
        /\ ~ radio_rx_enable[n] <=> Cardinality(ReenableEvents(queue, n)) = 1
        /\ Cardinality(ReenableEvents(queue, n)) <= 1
        /\ \A e \in ReenableEvents(queue, n) :
               /\ n \in DOMAIN last_tx_time
               /\ e.kind = "init_reenable" => e.time = last_tx_time[n]
               /\ e.kind = "reenable_timeout" => e.time = last_tx_time[n] + guard_time

\* C33 witness: a node is in the guard time of its second transmission with
\* one re-enabling waiting, and another node that has transmitted is
\* enabled again with none
C33_Witness ==
    \E n, m \in Registered(World) :
        /\ ~ radio_rx_enable[n]
        /\ local_tx_count[n] = 2
        /\ \E e \in ReenableEvents(queue, n) : e.kind = "reenable_timeout"
        /\ radio_rx_enable[m]
        /\ local_tx_count[m] >= 1
        /\ ReenableEvents(queue, m) = {}

\* the time is sink_start_delay + k * guard_time for an integer k >= 0
OnSlotGrid(time) ==
    time >= sink_start_delay /\ (time - sink_start_delay) % guard_time = 0

\* C34: in a run every transmission admitted by Media.put, every resolution
\* of the Medium and every recorded reception is at a time
\* sink_start_delay + k * guard_time with an integer k >= 0.
C34_OnSlotGrid ==
    /\ \A t \in DOMAIN last_tx_time : OnSlotGrid(last_tx_time[t])
    /\ pending # << >> => OnSlotGrid(now)
    /\ \A e \in Outstanding : OnSlotGrid(e.time)
    /\ resolved.done => OnSlotGrid(now)
    /\ \A n \in Registered(World) : \A f \in DOMAIN flood_beacon_times[n] :
           \A time \in flood_beacon_times[n][f] : OnSlotGrid(time)

\* C34 witness: with a guard time of two ticks a node has recorded a
\* reception in the second slot after the start of the flood, from a
\* transmission of that slot
C34_Witness ==
    /\ guard_time = 2
    /\ \E t \in DOMAIN last_tx_time : last_tx_time[t] = sink_start_delay + 2 * guard_time
    /\ \E n \in Registered(World) : \E f \in DOMAIN flood_beacon_times[n] :
           sink_start_delay + 2 * guard_time \in flood_beacon_times[n][f]

\* the flood beacon frames the sink has generated: broadcasts of the sink
\* with the sink's sequence number and a flood id the sink has recorded
SinkFrames ==
    { Frame("FLOOD_BEACON", 1, 0, msg_seq, FloodBeaconMessage(f)) :
        f \in flood_beacon_ids[1] }

\* whether _loss_handler finds the draw below the loss rate of k candidates
BelowLoss(draw, k) ==
    IF k = 1 THEN draw < base_loss_rate
    ELSE DoubleLess(Random(draw), EffectiveLoss(base_loss_rate, k))

\* C35: in a run every transmission of a pending batch and every frame in
\* a Channel Endpoint carries the one flood beacon frame the sink has
\* generated, so the candidates of a receiver never have two identities,
\* and a receiver that has candidates and gets nothing has lost them to a
\* draw below the fading loss rate of their number.
C35_OneFrameOnAir ==
    /\ Cardinality(SinkFrames) <= 1
    /\ \A j \in 1..Len(pending) : pending[j].frame \in SinkFrames
    /\ Cardinality(Identities(pending)) <= 1
    /\ \A r \in Registered(World) :
           /\ \A j \in 1..Len(items[r]) : items[r][j] \in SinkFrames
           /\ resolved.done =>
                  /\ Cardinality(Identities(resolved.rx[r])) <= 1
                  /\ ( resolved.rx[r] # << >> /\ resolved.out[r] = << >> ) =>
                         /\ DrawTaken(resolved.rx[r])
                         /\ resolved.draw[r] # NoDraw
                         /\ BelowLoss(resolved.draw[r], Len(resolved.rx[r]))

\* C35 witness: a receiver that has lost the sink's own transmission to
\* fading is reached by several relays of the frame at once and gets it
C35_Witness ==
    /\ resolved.done
    /\ stats.low = 1
    /\ base_loss_rate < Scale
    /\ now > sink_start_delay
    /\ \E r \in Registered(World) :
           /\ Len(resolved.rx[r]) >= 2
           /\ resolved.out[r] # << >>
           /\ flood_beacon_ids[r] = {}

\* the reception times a node has recorded, of any flood
ReceptionTimes(n) ==
    UNION { flood_beacon_times[n][f] : f \in DOMAIN flood_beacon_times[n] }

\* C36: a node at hop h >= 1 of the grid has recorded no reception of the
\* flood at a time before sink_start_delay + (h - 1) * guard_time.
C36_NotBeforeHopSlot ==
    \A n \in Registered(World) :
        HopOf(node_pos[n]) >= 1 =>
            \A time \in ReceptionTimes(n) :
                time >= sink_start_delay + (HopOf(node_pos[n]) - 1) * guard_time

\* C36 witness: with a guard time of two ticks a node at hop 2 has recorded
\* its first reception in the slot after the start of the flood, and a node
\* at hop 1 at the start of the flood
C36_Witness ==
    /\ guard_time = 2
    /\ \E n, m \in Registered(World) :
           /\ HopOf(node_pos[n]) = 2
           /\ ReceptionTimes(n) = { sink_start_delay + guard_time }
           /\ HopOf(node_pos[m]) = 1
           /\ sink_start_delay \in ReceptionTimes(m)

\* C37: with base_loss_rate 0, interference modelling and at least one
\* retransmission every node of the grid comes to record the flood and
\* keeps it, the run ends, and get_results reports flood_success.
C37_EveryNodeReached ==
    /\ <>[](\A n \in Registered(World) : flood_beacon_ids[n] # {})
    /\ <>(queue = {} /\ call.op = "get_results" /\ call.result.flood_success)
    /\ []( (queue = {} /\ now >= sink_start_delay) =>
              \A n \in Registered(World) : flood_beacon_ids[n] # {} )

\* C37 witness: get_results has reported the success of a flood on the grid
\* of two hops
C37_Witness ==
    /\ call.op = "get_results"
    /\ call.result.flood_success
    /\ \E n \in Registered(World) :
           HopOf(node_pos[n]) = 2 /\ flood_beacon_ids[n] # {}
    /\ call.result.completion_time = sink_start_delay + guard_time

\* C38: whenever a Channel Endpoint holds a frame, after finitely many
\* events every endpoint is empty, so every frame is pulled; the clock
\* does not move while an endpoint holds a frame, so a frame is pulled in
\* the tick it was pushed in; an endpoint changes only by a
\* frame pushed at its end or pulled from its front, and the frame handed
\* to the receive process is the one at the front; and when the event queue
\* is empty every endpoint is empty.
C38_EndpointsDrained ==
    /\ (\E n \in Registered(World) : items[n] # << >>)
           ~> (\A n \in Registered(World) : items[n] = << >>)
    /\ [][ now' # now => \A n \in Registered(World) : items[n] = << >> ]_vars
    /\ [][ \A n \in Registered(World) :
              \/ items'[n] = items[n]
              \/ \E e \in queue' \ queue :
                     /\ e.kind = "store_put" /\ e.node = n
                     /\ Len(items'[n]) = Len(items[n]) + 1
                     /\ SubSeq(items'[n], 1, Len(items[n])) = items[n]
              \/ \E e \in queue' \ queue :
                     /\ e.kind = "store_get" /\ e.node = n
                     /\ items[n] # << >>
                     /\ e.frame = Head(items[n])
                     /\ items'[n] = Tail(items[n]) ]_vars
    /\ [](queue = {} => \A n \in Registered(World) : items[n] = << >>)

\* C38 witness: of two frames pushed in the current tick the one of a
\* sensor has been pulled and waits to be handed to the receive process,
\* its endpoint is empty, and the other is still in its endpoint
C38_Witness ==
    \E n, m \in Registered(World) :
        /\ n # 1
        /\ tick.pushed[n] = 1
        /\ items[n] = << >>
        /\ \E e \in queue : e.kind = "store_get" /\ e.node = n /\ e.frame \in SinkFrames
        /\ tick.pushed[m] = 1
        /\ items[m] # << >>

\* C39: in a run every frame handed to Node.receive finds the radio of the
\* node enabled; when the Medium resolves a tick no re-enabling is due at
\* that time or earlier, and the nodes whose radio is disabled are senders
\* of the batch, which the Medium leaves out.
C39_ReceiveFindsRadioOn ==
    /\ [](\A h \in tick.handed : h.listening)
    /\ [][Popped("store_get") => radio_rx_enable[NextEvent(queue).node]]_vars
    /\ [][Popped("propagate") =>
             \A n \in Registered(World) :
                 /\ \A e \in ReenableEvents(queue, n) : e.time > now
                 /\ ~ radio_rx_enable[n] => n \in SenderIds(World) ]_vars

\* C39 witness: a node whose guard time ends in the current tick has been
\* handed a frame of this tick with its radio enabled
C39_Witness ==
    \E h \in tick.handed :
        /\ h.listening
        /\ h.node \in DOMAIN last_tx_time
        /\ last_tx_time[h.node] + guard_time = now
        /\ flood_beacon_ids[h.node] # {}

====
